---- MODULE Spec2Model ----
(***************************************************************************)
(* AR Bookshelf Optimizer: the detection controller (external detector     *)
(* first, local fallback on failure), the temporal stabilizer that carries *)
(* the stable book set from frame to frame, and the application's          *)
(* detection loop that drives the controller.                              *)
(*                                                                         *)
(* Numbers.  JavaScript numbers are modelled as exact fixed-point          *)
(* integers: a length of p pixels is the integer p * GeoScale and a        *)
(* confidence c is the integer c * ConfScale.  The scales are chosen so    *)
(* that every product with 0.6, 0.4, 0.8, 0.2 and 0.9 taken within the     *)
(* bounds of the model is exact; IEEE rounding is not modelled.            *)
(***************************************************************************)
EXTENDS Integers, Sequences, FiniteSets, TLC

VARIABLES
    mcpVariant,        \* which MCPBookDetection module is deployed
    stableBooks,       \* BookDetectionController.stableBooks
    detectionHistory,  \* BookDetectionController.detectionHistory
    calls,             \* the detectBooks invocations in progress (awaiting a fetch)
    lastResult,        \* what the most recently settled detectBooks call returned
    lastFrame,         \* locals of the last stabilizeBookPositions call
    frames,            \* number of detectBooks calls made so far
    isRunning,         \* ARBookshelfOptimizer.isRunning
    animationFrame,    \* ARBookshelfOptimizer.animationFrame
    orphanCallbacks,   \* scheduled frame callbacks animationFrame no longer names
    awaiting,          \* detectionLoop activations suspended at await performDetection()
    lastUpdateTime,    \* ARBookshelfOptimizer.lastUpdateTime
    clock,             \* Date.now()
    videoReady,        \* video.videoWidth and video.videoHeight are non-zero
    initDone,          \* init() has passed await initCamera()
    input,             \* the arguments of a function called on its own
    output,            \* what that call returned
    config             \* this.config of the line-based FallbackDetection

ctlVars == <<mcpVariant, stableBooks, detectionHistory, calls, lastResult, lastFrame, frames>>

loopVars == <<isRunning, animationFrame, orphanCallbacks, awaiting, lastUpdateTime,
              clock, videoReady, initDone>>

callVars == <<input, output, config>>

vars == <<ctlVars, loopVars, callVars>>

(***************************************************************************)
(* Bounds of the model.                                                    *)
(***************************************************************************)
MaxFrames == 3
MaxDetections == 2
MaxCalls == 2
MaxTicks == 2

(***************************************************************************)
(* Fixed-point representation.                                             *)
(***************************************************************************)
GeoScale == 25 * 25
ConfScale == 1000 * 1000
Px(n) == n * GeoScale
Conf(hundredths) == hundredths * (ConfScale \div 100)
Infinity == 2147483647

Abs(n) == IF n < 0 THEN -n ELSE n
Max(a, b) == IF a >= b THEN a ELSE b
Min(a, b) == IF a <= b THEN a ELSE b

(***************************************************************************)
(* Stabilizer thresholds (fallback-detection.js 982-1043).                 *)
(***************************************************************************)
\* stabilityFactor = 0.6, as tenths
stabilityFactor == 6
\* distance < 50
matchDistance == 50
\* book.confidence > 0.15, as hundredths
dropConfidence == 15
\* oldBook.confidence > 0.2, as hundredths
keepConfidence == 20
\* confidence floor of a match and stable threshold 0.3, as hundredths
stableConfidence == 30
\* maxHistorySize
maxHistorySize == 5

(***************************************************************************)
(* Squared Euclidean distance between the (x, y) of two books.  The code   *)
(* compares sqrt(dx^2 + dy^2) with 50 and with the best distance so far;   *)
(* sqrt is monotone, so the squares are compared instead.  A pair that is  *)
(* at least 50px apart on one axis can never match and is reported as      *)
(* Infinity, which keeps the squares within 32 bits.                       *)
(***************************************************************************)
DistanceSq_IgnoresY(a, b) ==
    LET dx == Abs(a.x - b.x)
    IN  IF dx >= Px(matchDistance) THEN Infinity ELSE dx * dx

DistanceSq(a, b) ==
    LET dx == Abs(a.x - b.x)
        dy == Abs(a.y - b.y)
    IN  IF dx >= Px(matchDistance) \/ dy >= Px(matchDistance)
        THEN Infinity
        ELSE dx * dx + dy * dy

matchLimitSq == Px(matchDistance) * Px(matchDistance)

RECURSIVE ScanOldBooks_IgnoresUsed(_, _, _, _, _, _)
\* ScanOldBooks without the test usedOldBooks.has(idx)
ScanOldBooks_IgnoresUsed(newBook, oldBooks, usedOldBooks, idx, bestMatch, bestDistance) ==
    IF idx > Len(oldBooks) THEN bestMatch
    ELSE LET distance == DistanceSq(newBook, oldBooks[idx])
         IN  IF distance < bestDistance /\ distance < matchLimitSq
             THEN ScanOldBooks_IgnoresUsed(newBook, oldBooks, usedOldBooks, idx + 1, idx, distance)
             ELSE ScanOldBooks_IgnoresUsed(newBook, oldBooks, usedOldBooks, idx + 1,
                                           bestMatch, bestDistance)

RECURSIVE ScanOldBooks(_, _, _, _, _, _)
\* oldBooks.forEach((oldBook, idx) => ...) of lines 996-1008: returns the index
\* of bestMatch (0 for null) after scanning old books idx..Len(oldBooks).
ScanOldBooks(newBook, oldBooks, usedOldBooks, idx, bestMatch, bestDistance) ==
    IF idx > Len(oldBooks) THEN bestMatch
    ELSE IF idx \in usedOldBooks
         THEN ScanOldBooks(newBook, oldBooks, usedOldBooks, idx + 1, bestMatch, bestDistance)
         ELSE LET distance == DistanceSq(newBook, oldBooks[idx])
              IN  IF distance < bestDistance /\ distance < matchLimitSq
                  THEN ScanOldBooks(newBook, oldBooks, usedOldBooks, idx + 1, idx, distance)
                  ELSE ScanOldBooks(newBook, oldBooks, usedOldBooks, idx + 1, bestMatch, bestDistance)

RECURSIVE MatchNewBooks(_, _, _, _)
\* newBooks.forEach(...) of lines 992-1029, the matching only: the sequence that
\* gives, for each new book in input order, the index of the old book it
\* claimed (0 when it found none).
MatchNewBooks(newBooks, oldBooks, usedOldBooks, i) ==
    IF i > Len(newBooks) THEN <<>>
    ELSE LET bestMatch == ScanOldBooks(newBooks[i], oldBooks, usedOldBooks, 1, 0, Infinity)
             used == IF bestMatch = 0 THEN usedOldBooks ELSE usedOldBooks \cup {bestMatch}
         IN  <<bestMatch>> \o MatchNewBooks(newBooks, oldBooks, used, i + 1)

\* Smooth with the complement forgotten: new * stabilityFactor
Smooth_ForgetsComplement(old, new) == (old * stabilityFactor + new * stabilityFactor) \div 10

\* old * stabilityFactor + new * (1 - stabilityFactor)
Smooth(old, new) == (old * stabilityFactor + new * (10 - stabilityFactor)) \div 10

\* the blended confidence without its floor of 0.3
BlendConfidence_NoFloor(old, new) == (old * 8 + new * 2) \div 10

\* the blend with the new confidence taken in full
BlendConfidence_UnweightedNew(old, new) ==
    Max((old * 8 + new * 10) \div 10, Conf(stableConfidence))

\* Math.max(old.confidence * 0.8 + new.confidence * 0.2, 0.3)
BlendConfidence(old, new) == Max((old * 8 + new * 2) \div 10, Conf(stableConfidence))

\* a decay that leaves the confidence as it was
Decay_Holds(confidence) == confidence

\* oldBook.confidence * 0.9
Decay(confidence) == (confidence * 9) \div 10

\* MatchedBook spreading the old book instead of the new one
MatchedBook_SpreadsOldBook(newBook, oldBook) ==
    [x |-> Smooth(oldBook.x, newBook.x),
     y |-> Smooth(oldBook.y, newBook.y),
     width |-> Smooth(oldBook.width, newBook.width),
     height |-> Smooth(oldBook.height, newBook.height),
     confidence |-> BlendConfidence(oldBook.confidence, newBook.confidence),
     stable |-> TRUE] @@ oldBook

\* lines 1013-1021: { ...newBook, x, y, width, height, confidence, stable: true }
MatchedBook(newBook, oldBook) ==
    [x |-> Smooth(oldBook.x, newBook.x),
     y |-> Smooth(oldBook.y, newBook.y),
     width |-> Smooth(oldBook.width, newBook.width),
     height |-> Smooth(oldBook.height, newBook.height),
     confidence |-> BlendConfidence(oldBook.confidence, newBook.confidence),
     stable |-> TRUE] @@ newBook

\* lines 1024-1027: { ...newBook, stable: false }
NewBook(newBook) == [stable |-> FALSE] @@ newBook

\* FirstFrameBook marking the book as a new, unstable one
FirstFrameBook_Unstable(book) == [stable |-> FALSE] @@ book

\* line 984: { ...book, stable: true }
FirstFrameBook(book) == [stable |-> TRUE] @@ book

\* KeepsOldBook without the test of the stable flag
KeepsOldBook_IgnoresStable(oldBook) == oldBook.confidence > Conf(keepConfidence)

\* line 1033: which unmatched old books are kept
KeepsOldBook(oldBook) ==
    oldBook.stable /\ oldBook.confidence > Conf(keepConfidence)

\* lines 1034-1038: { ...oldBook, confidence: c * 0.9, stable: c > 0.3 }
DecayedBook(oldBook) ==
    [confidence |-> Decay(oldBook.confidence),
     stable |-> oldBook.confidence > Conf(stableConfidence)] @@ oldBook

\* line 1042: book.confidence > 0.15
AboveDropFloor(book) == book.confidence > Conf(dropConfidence)

\* line 983: the early return taken when there is no previous set
TakesFirstFramePath(oldBooks) == Len(oldBooks) = 0

\* BookDetectionController.stabilizeBookPositions(newBooks, oldBooks)
stabilizeBookPositions(newBooks, oldBooks) ==
    IF TakesFirstFramePath(oldBooks)
    THEN [i \in 1..Len(newBooks) |-> FirstFrameBook(newBooks[i])]
    ELSE LET match == MatchNewBooks(newBooks, oldBooks, {}, 1)
             usedOldBooks == {match[i] : i \in 1..Len(match)} \ {0}
             fromNew == [i \in 1..Len(newBooks) |->
                            IF match[i] # 0
                            THEN MatchedBook(newBooks[i], oldBooks[match[i]])
                            ELSE NewBook(newBooks[i])]
             keptIdx == SelectSeq([i \in 1..Len(oldBooks) |-> i],
                                  LAMBDA i : i \notin usedOldBooks /\ KeepsOldBook(oldBooks[i]))
             fromOld == [k \in 1..Len(keptIdx) |-> DecayedBook(oldBooks[keptIdx[k]])]
         IN  SelectSeq(fromNew \o fromOld, AboveDropFloor)

(***************************************************************************)
(* Raw books.  A book carries id, x, y, width, height, confidence,         *)
(* estimatedThickness, canRotate, canStack and detectionMethod; title,     *)
(* isReal, spineArea, volumeEfficiency and the raw payload are carried     *)
(* along unchanged by the code and are left out.  An id `prefix_k` is the  *)
(* tuple <<prefix, k>>, `fallback_s<i>_b<k>` is <<"fallback", i, k>>.      *)
(***************************************************************************)

\* mcp-integration.js 121-130: MCPBookDetection.isValidBookDetection.  The
\* ratio height / width is compared after multiplying out by width, which is
\* positive whenever isBookSized holds; for width <= 0 the conjunction is
\* false in the code as well.
isValidBookDetection_YOLO(detection) ==
    LET isBookSized == /\ detection.width > Px(10) /\ detection.width < Px(100)
                       /\ detection.height > Px(60) /\ detection.height < Px(400)
        isBookRatio == /\ detection.width > 0
                       /\ 10 * detection.height > 12 * detection.width
                       /\ detection.height < 8 * detection.width
        isConfident == detection.confidence > Conf(30)
    IN  isBookSized /\ isBookRatio /\ isConfident

\* mcp-integration.js 98-114: the book pushed for a valid detection
McpBook_YOLO(detection, index) ==
    [id |-> <<"mcp_book", index>>,
     x |-> detection.x,
     y |-> detection.y,
     width |-> detection.width,
     height |-> detection.height,
     confidence |-> detection.confidence,
     estimatedThickness |-> (detection.width * 6) \div 10,
     canRotate |-> detection.height < detection.width * 3,
     canStack |-> detection.height > Px(100) /\ detection.width < Px(30),
     detectionMethod |-> "MCP_YOLO_OpenCV"]

\* mcp-integration.js 93-119: MCPBookDetection.processDetections
processDetections_YOLO(detections) ==
    LET valid == SelectSeq([i \in 1..Len(detections) |-> i],
                           LAMBDA i : isValidBookDetection_YOLO(detections[i]))
    IN  [k \in 1..Len(valid) |-> McpBook_YOLO(detections[valid[k]], valid[k] - 1)]

\* part_000 105-140: normalizeDetectionCoordinates, for the {x, y, width, height}
\* format the modelled detector answers in (detection.bbox absent, detection.x
\* defined).
normalizeDetectionCoordinates(detection) ==
    [x |-> detection.x, y |-> detection.y,
     width |-> detection.width, height |-> detection.height]

\* part_000 88 and 144: detection.confidence || detection.score || 0.7 (no score)
DetectionConfidence(detection) ==
    IF detection.confidence # 0 THEN detection.confidence ELSE Conf(70)

\* part_000 142-158: MCPBookDetection.isValidBookDetection
isValidBookDetection_ImageSorcery(detection) ==
    LET bbox == normalizeDetectionCoordinates(detection)
        confidence == DetectionConfidence(detection)
        isBookSized == /\ bbox.width > Px(10) /\ bbox.width < Px(100)
                       /\ bbox.height > Px(60) /\ bbox.height < Px(400)
        isBookRatio == /\ bbox.width > 0
                       /\ 10 * bbox.height > 12 * bbox.width
                       /\ bbox.height < 8 * bbox.width
        isConfident == confidence > Conf(20)
        isBookLabeled == detection.label \in {"book", "spine"}
    IN  (isBookSized /\ isBookRatio /\ isConfident) \/ isBookLabeled

\* part_000 80-98: the book pushed for a valid detection
McpBook_ImageSorcery(detection, index) ==
    LET bbox == normalizeDetectionCoordinates(detection)
    IN  [id |-> <<"imagesorcery_book", index>>,
         x |-> bbox.x,
         y |-> bbox.y,
         width |-> bbox.width,
         height |-> bbox.height,
         confidence |-> DetectionConfidence(detection),
         estimatedThickness |-> (bbox.width * 6) \div 10,
         canRotate |-> bbox.height < bbox.width * 3,
         canStack |-> bbox.height > Px(100) /\ bbox.width < Px(30),
         detectionMethod |-> "ImageSorcery_MCP"]

\* part_000 74-103: MCPBookDetection.processDetections
processDetections_ImageSorcery(detections) ==
    LET valid == SelectSeq([i \in 1..Len(detections) |-> i],
                           LAMBDA i : isValidBookDetection_ImageSorcery(detections[i]))
    IN  [k \in 1..Len(valid) |-> McpBook_ImageSorcery(detections[valid[k]], valid[k] - 1)]

\* FallbackBook taking the height from the top of the shelf
FallbackBook_HeightFromTop(shelfIndex, n, leftX, bookWidth, shelfTop, shelfHeight, confidence) ==
    [id |-> <<"fallback", shelfIndex, n>>,
     x |-> leftX,
     y |-> shelfTop,
     width |-> bookWidth,
     height |-> (shelfTop * 85) \div 100,
     confidence |-> confidence,
     estimatedThickness |-> (bookWidth * 6) \div 10,
     canRotate |-> shelfHeight < bookWidth * 3,
     canStack |-> shelfHeight > Px(100) /\ bookWidth < Px(30),
     detectionMethod |-> "Fallback_Enhanced_v3"]

\* fallback-detection.js 191-208: the book detectBooksInShelf pushes for an
\* accepted edge pair; n is books.length at the push.
FallbackBook(shelfIndex, n, leftX, bookWidth, shelfTop, shelfHeight, confidence) ==
    [id |-> <<"fallback", shelfIndex, n>>,
     x |-> leftX,
     y |-> shelfTop,
     width |-> bookWidth,
     height |-> (shelfHeight * 85) \div 100,
     confidence |-> confidence,
     estimatedThickness |-> (bookWidth * 6) \div 10,
     canRotate |-> shelfHeight < bookWidth * 3,
     canStack |-> shelfHeight > Px(100) /\ bookWidth < Px(30),
     detectionMethod |-> "Fallback_Enhanced_v3"]

(***************************************************************************)
(* Pixel buffers.  A buffer is described by its size and by the spines the *)
(* local pipeline accepts in it: for each accepted edge pair, the shelf it *)
(* lies in, the x of the left edge, the distance to the right edge, the    *)
(* shelf band and the confidence computed from the edges.                  *)
(***************************************************************************)
NullImage == [isNull |-> TRUE, width |-> 0, height |-> 0, spines |-> <<>>]

ZeroImage == [isNull |-> FALSE, width |-> 0, height |-> 0, spines |-> <<>>]

ShelfImage ==
    [isNull |-> FALSE, width |-> Px(400), height |-> Px(400),
     spines |-> << [shelfIndex |-> 0, leftX |-> Px(99), bookWidth |-> Px(30),
                    shelfTop |-> 0, shelfHeight |-> Px(200), confidence |-> Conf(60)],
                   [shelfIndex |-> 1, leftX |-> Px(300), bookWidth |-> Px(18),
                    shelfTop |-> Px(200), shelfHeight |-> Px(200), confidence |-> Conf(45)] >>]

Images == {NullImage, ZeroImage, ShelfImage}

\* sampleStep of the fallback configuration
sampleStep == 3

\* fallback-detection.js 147: for (x = step; x < width - step; x += step) - only
\* columns inside the step-wide border are scanned, so only edges there exist.
InScannedColumns(image, x) == x >= Px(sampleStep) /\ x < image.width - Px(sampleStep)

\* fallback-detection.js 23-46: FallbackDetection.detectBooks, the books of all
\* shelves concatenated in shelf order, numbered per shelf.
FallbackDetection_detectBooks(image) ==
    LET seen == SelectSeq(image.spines,
                          LAMBDA sp : /\ InScannedColumns(image, sp.leftX)
                                      /\ InScannedColumns(image, sp.leftX + sp.bookWidth))
        NumberInShelf(k) == Cardinality({j \in 1..(k - 1) : seen[j].shelfIndex = seen[k].shelfIndex})
    IN  [k \in 1..Len(seen) |->
            FallbackBook(seen[k].shelfIndex, NumberInShelf(k), seen[k].leftX,
                         seen[k].bookWidth, seen[k].shelfTop, seen[k].shelfHeight,
                         seen[k].confidence)]

(***************************************************************************)
(* What the external detector can answer: detections {x, y, width, height, *)
(* confidence, label}.  The service is outside the program, so its answers *)
(* are not limited to well-formed boxes.                                   *)
(***************************************************************************)
DetectorPool ==
    << [x |-> Px(100), y |-> 0, width |-> Px(40), height |-> Px(150),
        confidence |-> Conf(32), label |-> "book"],
       [x |-> Px(104), y |-> Px(3), width |-> Px(40), height |-> Px(150),
        confidence |-> Conf(10), label |-> "book"],
       [x |-> Px(350), y |-> 0, width |-> Px(20), height |-> Px(150),
        confidence |-> Conf(150), label |-> ""],
       [x |-> Px(100), y |-> Px(250), width |-> 0, height |-> Px(150),
        confidence |-> Conf(18), label |-> "spine"] >>

\* the answers: the sub-lists of the pool, in pool order, of bounded length
DetectorAnswers ==
    { LET idx == SelectSeq([i \in 1..Len(DetectorPool) |-> i], LAMBDA i : i \in S)
      IN  [k \in 1..Len(idx) |-> DetectorPool[idx[k]]]
      : S \in {T \in SUBSET (1..Len(DetectorPool)) : Cardinality(T) <= MaxDetections} }

(***************************************************************************)
(* The controller.  lastFrame records the last stabilizeBookPositions call: *)
(* the branch it took (path), the branch the call before it took (before), *)
(* its arguments (raw, old) and, per raw book, the old book it claimed.    *)
(***************************************************************************)
CallIds == 1..MaxCalls

IdleCall == [pc |-> "idle", image |-> NullImage, yolo |-> <<>>]

\* no function has been called on its own
NoCall == [fn |-> "none"]

NoFrame == [path |-> "none", before |-> "none", old |-> <<>>, raw |-> <<>>, match |-> <<>>]

\* app.js 17: updateInterval, in ms
updateInterval == 300

\* the step of the clock, in ms
TickMs == 150

\* BookDetectionController's constructor (fallback-detection.js 924-933),
\* ARBookshelfOptimizer's constructor (app.js 9-20) up to the await in init(),
\* and the constructor of the line-based FallbackDetection
\* (book-dimensions-db.js 234-243), of whose config only edgeThreshold is
\* ever written
Constructed ==
    /\ mcpVariant \in {"YOLO_OpenCV", "ImageSorcery"}
    /\ stableBooks = <<>>
    /\ detectionHistory = <<>>
    /\ calls = [c \in CallIds |-> IdleCall]
    /\ lastResult = [status |-> "none", books |-> <<>>, detectionType |-> "none"]
    /\ lastFrame = NoFrame
    /\ frames = 0
    /\ isRunning = FALSE
    /\ animationFrame = "null"
    /\ orphanCallbacks = 0
    /\ awaiting = [c \in CallIds |-> [active |-> FALSE, now |-> 0]]
    /\ lastUpdateTime = 0
    /\ clock = updateInterval
    /\ videoReady = FALSE
    /\ initDone = FALSE
    /\ config = [edgeThreshold |-> 40]

\* the program after construction; no function has been called on its own
Init ==
    /\ Constructed
    /\ input = NoCall
    /\ output = NoCall

\* PushHistory that drops the frame just pushed when the history is full
PushHistory_DropsNewest(history, books, detectionType, now) ==
    LET pushed == Append(history, [timestamp |-> now, count |-> Len(books),
                                   books |-> books, type |-> detectionType])
    IN  IF Len(pushed) > maxHistorySize THEN SubSeq(pushed, 1, maxHistorySize) ELSE pushed

\* fallback-detection.js 956-966: push the frame, shift when over maxHistorySize.
\* The timestamp is the number of calls made so far (a clock that never runs back).
PushHistory(history, books, detectionType, now) ==
    LET pushed == Append(history, [timestamp |-> now, count |-> Len(books),
                                   books |-> books, type |-> detectionType])
    IN  IF Len(pushed) > maxHistorySize THEN Tail(pushed) ELSE pushed

\* fallback-detection.js 954-980: processDetectionResults(books, detectionType),
\* run to its return (it is synchronous); suggestions and stats are derived
\* from stableBooks and are not part of this state.
ProcessDetectionResults(books, detectionType) ==
    /\ detectionHistory' = PushHistory(detectionHistory, books, detectionType, frames)
    /\ stableBooks' = stabilizeBookPositions(books, stableBooks)
    /\ lastFrame' = [path |-> IF TakesFirstFramePath(stableBooks) THEN "first" ELSE "match",
                     before |-> lastFrame.path,
                     old |-> stableBooks,
                     raw |-> books,
                     match |-> IF TakesFirstFramePath(stableBooks) THEN <<>>
                               ELSE MatchNewBooks(books, stableBooks, {}, 1)]
    /\ lastResult' = [status |-> "ok", books |-> stableBooks', detectionType |-> detectionType]

\* the catch branch handing the detections the failed call had already
\* received to the stabilizer
FallBack_KeepsPartialAnswer(c) ==
    /\ ProcessDetectionResults(processDetections_YOLO(calls[c].yolo), "Fallback")
    /\ calls' = [calls EXCEPT ![c] = IdleCall]

\* fallback-detection.js 944-951: the catch branch of detectBooks
FallBack(c) ==
    /\ ProcessDetectionResults(FallbackDetection_detectBooks(calls[c].image), "Fallback")
    /\ calls' = [calls EXCEPT ![c] = IdleCall]

\* detectBooks(null) that empties the stored set before it rejects
detectBooks_Null_DropsStored ==
    /\ frames < MaxFrames
    /\ frames' = frames + 1
    /\ lastResult' = [status |-> "error", books |-> <<>>, detectionType |-> "none"]
    /\ stableBooks' = <<>>
    /\ UNCHANGED <<mcpVariant, detectionHistory, calls, lastFrame>>

\* detectBooks(null): imageDataToBase64 reads imageData.width and throws, the
\* controller's catch runs the fallback, which reads imageData.data and throws
\* again: the call rejects before anything is stored.
detectBooks_Null ==
    /\ frames < MaxFrames
    /\ frames' = frames + 1
    /\ lastResult' = [status |-> "error", books |-> <<>>, detectionType |-> "none"]
    /\ UNCHANGED <<mcpVariant, stableBooks, detectionHistory, calls, lastFrame>>

\* detectBooks(image) up to the first fetch (fallback-detection.js 940,
\* mcp-integration.js 19-22): the request is sent and the call awaits the answer.
detectBooks_Send(c, image) ==
    /\ calls[c].pc = "idle"
    /\ frames < MaxFrames
    /\ ~image.isNull
    /\ frames' = frames + 1
    /\ calls' = [calls EXCEPT ![c] =
                    [pc |-> IF mcpVariant = "YOLO_OpenCV" THEN "yolo" ELSE "imagesorcery",
                     image |-> image, yolo |-> <<>>]]
    /\ UNCHANGED <<mcpVariant, stableBooks, detectionHistory, lastResult, lastFrame>>

\* detectBooks(image) when imageDataToBase64 throws (the canvas rejects a buffer
\* of zero size): caught, and the fallback runs in the same turn.
detectBooks_EncodeThrows(image) ==
    /\ frames < MaxFrames
    /\ ~image.isNull
    /\ image.width = 0 \/ image.height = 0
    /\ frames' = frames + 1
    /\ ProcessDetectionResults(FallbackDetection_detectBooks(image), "Fallback")
    /\ UNCHANGED <<mcpVariant, calls>>

\* mcp-integration.js 46-62: the YOLO fetch throws or answers non-OK
callYOLOMCP_Fails(c) ==
    /\ calls[c].pc = "yolo"
    /\ FallBack(c)
    /\ UNCHANGED <<mcpVariant, frames>>

\* mcp-integration.js 64-65 and 26: YOLO answers, the OpenCV request is sent
callYOLOMCP_Answers(c, detections) ==
    /\ calls[c].pc = "yolo"
    /\ calls' = [calls EXCEPT ![c].pc = "opencv", ![c].yolo = detections]
    /\ UNCHANGED <<mcpVariant, stableBooks, detectionHistory, lastResult, lastFrame, frames>>

\* mcp-integration.js 68-87: the OpenCV fetch throws or answers non-OK
callOpenCVMCP_Fails(c) ==
    /\ calls[c].pc = "opencv"
    /\ FallBack(c)
    /\ UNCHANGED <<mcpVariant, frames>>

\* mcp-integration.js 89-90 and 29: results.refined_detections || yoloDetections
callOpenCVMCP_Answers(c, refined, hasRefined) ==
    /\ calls[c].pc = "opencv"
    /\ LET openCVResults == IF hasRefined THEN refined ELSE calls[c].yolo
       IN  ProcessDetectionResults(processDetections_YOLO(openCVResults), "MCP")
    /\ calls' = [calls EXCEPT ![c] = IdleCall]
    /\ UNCHANGED <<mcpVariant, frames>>

\* part_000 43-71: the ImageSorcery fetch throws, times out or answers non-OK
callImageSorceryDetection_Fails(c) ==
    /\ calls[c].pc = "imagesorcery"
    /\ FallBack(c)
    /\ UNCHANGED <<mcpVariant, frames>>

\* part_000 63-64 and 26: ImageSorcery answers
callImageSorceryDetection_Answers(c, detections) ==
    /\ calls[c].pc = "imagesorcery"
    /\ ProcessDetectionResults(processDetections_ImageSorcery(detections), "MCP")
    /\ calls' = [calls EXCEPT ![c] = IdleCall]
    /\ UNCHANGED <<mcpVariant, frames>>

(***************************************************************************)
(* Spec: the controller under a caller that awaits each detectBooks call   *)
(* before it makes the next one.                                           *)
(***************************************************************************)
NoCallInProgress == \A c \in CallIds : calls[c].pc = "idle"

DetectBooksNull ==
    NoCallInProgress /\ detectBooks_Null /\ UNCHANGED <<loopVars, callVars>>

DetectBooksRequest ==
    /\ NoCallInProgress
    /\ \E image \in Images : detectBooks_Send(1, image)
    /\ UNCHANGED <<loopVars, callVars>>

DetectBooksEncodeThrows ==
    /\ NoCallInProgress
    /\ \E image \in Images : detectBooks_EncodeThrows(image)
    /\ UNCHANGED <<loopVars, callVars>>

YoloFails ==
    (\E c \in CallIds : callYOLOMCP_Fails(c)) /\ UNCHANGED <<loopVars, callVars>>

YoloAnswers ==
    /\ \E c \in CallIds, detections \in DetectorAnswers : callYOLOMCP_Answers(c, detections)
    /\ UNCHANGED <<loopVars, callVars>>

OpenCVFails ==
    (\E c \in CallIds : callOpenCVMCP_Fails(c)) /\ UNCHANGED <<loopVars, callVars>>

OpenCVRefines ==
    /\ \E c \in CallIds, refined \in DetectorAnswers : callOpenCVMCP_Answers(c, refined, TRUE)
    /\ UNCHANGED <<loopVars, callVars>>

OpenCVKeepsYolo ==
    (\E c \in CallIds : callOpenCVMCP_Answers(c, <<>>, FALSE)) /\ UNCHANGED <<loopVars, callVars>>

ImageSorceryFails ==
    (\E c \in CallIds : callImageSorceryDetection_Fails(c)) /\ UNCHANGED <<loopVars, callVars>>

ImageSorceryAnswers ==
    /\ \E c \in CallIds, detections \in DetectorAnswers :
          callImageSorceryDetection_Answers(c, detections)
    /\ UNCHANGED <<loopVars, callVars>>

Next ==
    \/ DetectBooksNull
    \/ DetectBooksRequest
    \/ DetectBooksEncodeThrows
    \/ YoloFails
    \/ YoloAnswers
    \/ OpenCVFails
    \/ OpenCVRefines
    \/ OpenCVKeepsYolo
    \/ ImageSorceryFails
    \/ ImageSorceryAnswers

Spec == Init /\ [][Next]_vars

(***************************************************************************)
(* SpecLoop: the application's detection loop driving the controller.      *)
(* One action is one browser task: an event handler, a frame callback or   *)
(* the settling of a fetch, each run together with the promise             *)
(* continuations it wakes, up to the next await of a fetch.                *)
(*                                                                         *)
(* requestAnimationFrame ids are not kept: animationFrame is "null" before *)
(* the first request, "pending" while the callback it names is scheduled,  *)
(* and "spent" once that callback has run or was cancelled; scheduled      *)
(* callbacks whose id was overwritten are counted in orphanCallbacks.      *)
(***************************************************************************)

\* the frames the camera delivers and the answers of the detector in SpecLoop
LoopImages == {ShelfImage}

LoopAnswers == {<<>>, <<DetectorPool[1]>>}

\* app.js 197: this.animationFrame = requestAnimationFrame(...)
RequestFrame(current, orphans) ==
    /\ animationFrame' = "pending"
    /\ orphanCallbacks' = IF current = "pending" THEN orphans + 1 ELSE orphans

\* the lowest free slot for a detectBooks invocation
FreeCall(c) ==
    /\ calls[c].pc = "idle"
    /\ \A d \in CallIds : d < c => calls[d].pc # "idle"

\* app.js 187-198 with 200-227: detectionLoop() up to its first suspension,
\* entered with isRunning = running and the given animationFrame state.
detectionLoop(running, current, orphans) ==
    IF ~running
    THEN /\ animationFrame' = current
         /\ orphanCallbacks' = orphans
         /\ UNCHANGED <<ctlVars, awaiting, lastUpdateTime>>
    ELSE IF clock - lastUpdateTime >= updateInterval
         THEN IF ~videoReady
              THEN \* performDetection returns at once: 'Video not ready yet'
                   /\ lastUpdateTime' = clock
                   /\ RequestFrame(current, orphans)
                   /\ UNCHANGED <<ctlVars, awaiting>>
              ELSE \* captureFrame, then detectBooks awaits the detector
                   /\ \E c \in CallIds, image \in LoopImages :
                         /\ FreeCall(c)
                         /\ detectBooks_Send(c, image)
                         /\ awaiting' = [awaiting EXCEPT ![c] = [active |-> TRUE, now |-> clock]]
                   /\ animationFrame' = current
                   /\ orphanCallbacks' = orphans
                   /\ UNCHANGED lastUpdateTime
         ELSE /\ RequestFrame(current, orphans)
              /\ UNCHANGED <<ctlVars, awaiting, lastUpdateTime>>

\* app.js 163-167: startDetection()
startDetection ==
    /\ isRunning' = TRUE
    /\ detectionLoop(TRUE, animationFrame, orphanCallbacks)

\* app.js 169-175: stopDetection(); cancelAnimationFrame of a callback that has
\* already run does nothing
stopDetection ==
    /\ isRunning' = FALSE
    /\ animationFrame' = IF animationFrame = "pending" THEN "spent" ELSE animationFrame
    /\ UNCHANGED <<ctlVars, orphanCallbacks, awaiting, lastUpdateTime>>

\* app.js 36-37: init() resumes after await initCamera() and starts the loop
InitCompletes ==
    /\ ~initDone
    /\ initDone' = TRUE
    /\ startDetection
    /\ UNCHANGED <<clock, videoReady, callVars>>

\* app.js 47 and 177-185: a click on the stop button
ToggleDetection ==
    /\ IF isRunning THEN stopDetection ELSE startDetection
    /\ UNCHANGED <<clock, videoReady, initDone, callVars>>

\* app.js 197: the callback animationFrame names runs detectionLoop()
AnimationFrameFires ==
    /\ animationFrame = "pending"
    /\ detectionLoop(isRunning, "spent", orphanCallbacks)
    /\ UNCHANGED <<isRunning, clock, videoReady, initDone, callVars>>

\* app.js 197: a callback whose id was overwritten runs detectionLoop()
OrphanCallbackFires ==
    /\ orphanCallbacks > 0
    /\ detectionLoop(isRunning, animationFrame, orphanCallbacks - 1)
    /\ UNCHANGED <<isRunning, clock, videoReady, initDone, callVars>>

\* app.js 193-197: detectBooks has returned to performDetection, which returns
\* to the suspended detectionLoop: lastUpdateTime = now, then the next frame is
\* requested (isRunning is not read again)
ResumeLoop(c) ==
    /\ awaiting[c].active
    /\ lastUpdateTime' = awaiting[c].now
    /\ awaiting' = [awaiting EXCEPT ![c].active = FALSE]
    /\ RequestFrame(animationFrame, orphanCallbacks)

\* a fetch of call c fails: fallback, result, and the loop resumes
LoopDetectorFails ==
    /\ \E c \in CallIds :
          /\ \/ callYOLOMCP_Fails(c)
             \/ callOpenCVMCP_Fails(c)
             \/ callImageSorceryDetection_Fails(c)
          /\ ResumeLoop(c)
    /\ UNCHANGED <<isRunning, clock, videoReady, initDone, callVars>>

\* YOLO answers call c; the call goes on to await OpenCV
LoopYoloAnswers ==
    /\ \E c \in CallIds, detections \in LoopAnswers : callYOLOMCP_Answers(c, detections)
    /\ UNCHANGED <<loopVars, callVars>>

\* the last fetch of call c answers: result, and the loop resumes
LoopDetectorAnswers ==
    /\ \E c \in CallIds :
          /\ \/ \E refined \in LoopAnswers : callOpenCVMCP_Answers(c, refined, TRUE)
             \/ callOpenCVMCP_Answers(c, <<>>, FALSE)
             \/ \E detections \in LoopAnswers : callImageSorceryDetection_Answers(c, detections)
          /\ ResumeLoop(c)
    /\ UNCHANGED <<isRunning, clock, videoReady, initDone, callVars>>

\* app.js 68-80: the camera stream's metadata loads; init() is still waiting
\* for it (when getUserMedia fails instead, init() goes on without a video)
VideoLoads ==
    /\ ~videoReady
    /\ ~initDone
    /\ videoReady' = TRUE
    /\ UNCHANGED <<ctlVars, isRunning, animationFrame, orphanCallbacks, awaiting,
                   lastUpdateTime, clock, initDone, callVars>>

\* time passes
Tick ==
    /\ clock < updateInterval + MaxTicks * TickMs
    /\ clock' = clock + TickMs
    /\ UNCHANGED <<ctlVars, isRunning, animationFrame, orphanCallbacks, awaiting,
                   lastUpdateTime, videoReady, initDone, callVars>>

NextLoop ==
    \/ InitCompletes
    \/ ToggleDetection
    \/ AnimationFrameFires
    \/ OrphanCallbackFires
    \/ LoopDetectorFails
    \/ LoopYoloAnswers
    \/ LoopDetectorAnswers
    \/ VideoLoads
    \/ Tick

SpecLoop == Init /\ [][NextLoop]_vars

(***************************************************************************)
(* SpecLoopFault: the loop of SpecLoop with frames for which detectBooks   *)
(* rejects.  The call rejects when neither the detector path nor the local *)
(* pipeline can read the frame (fallback-detection.js 940 and 948 both     *)
(* throw); performDetection catches the rejection (app.js 222-225).  The   *)
(* stop button is left alone here, so one chain of callbacks runs.         *)
(***************************************************************************)

\* app.js 187-198 with 200-227: detectionLoop() entered with the interval
\* elapsed and the video ready, detectBooks rejecting: the catch of
\* performDetection logs, detectionLoop sets lastUpdateTime and requests the
\* next frame, all within the task
detectionLoop_Rejected(current, orphans) ==
    /\ isRunning
    /\ clock - lastUpdateTime >= updateInterval
    /\ videoReady
    /\ detectBooks_Null
    /\ lastUpdateTime' = clock
    /\ RequestFrame(current, orphans)
    /\ UNCHANGED awaiting

\* app.js 197: the callback animationFrame names runs, and detectBooks rejects
AnimationFrameRejected ==
    /\ animationFrame = "pending"
    /\ detectionLoop_Rejected("spent", orphanCallbacks)
    /\ UNCHANGED <<isRunning, clock, videoReady, initDone, callVars>>

MaxIntervals == 2

\* time passes, an update interval at a time
IntervalPasses ==
    /\ clock < updateInterval + MaxIntervals * updateInterval
    /\ clock' = clock + updateInterval
    /\ UNCHANGED <<ctlVars, isRunning, animationFrame, orphanCallbacks, awaiting,
                   lastUpdateTime, videoReady, initDone, callVars>>

NextLoopFault ==
    \/ InitCompletes
    \/ AnimationFrameFires
    \/ AnimationFrameRejected
    \/ LoopDetectorFails
    \/ LoopYoloAnswers
    \/ LoopDetectorAnswers
    \/ VideoLoads
    \/ IntervalPasses

SpecLoopFault == Init /\ [][NextLoopFault]_vars

(***************************************************************************)
(* SpecLive: the controller and the timers the code arms.  The             *)
(* only timer is AbortSignal.timeout(10000) on the ImageSorcery fetch; the *)
(* event loop runs a due timer, hence the weak fairness.  The YOLO and     *)
(* OpenCV fetches are sent without a signal.  Whether and when the         *)
(* detector answers or the network fails is up to the environment: no      *)
(* fairness is stated for it.                                              *)
(***************************************************************************)

\* part_000 56 and 65-70: the abort timer of the fetch fires, fetch rejects,
\* the error is rethrown and the controller's catch runs the fallback
callImageSorceryDetection_TimesOut(c) ==
    /\ calls[c].pc = "imagesorcery"
    /\ FallBack(c)
    /\ UNCHANGED <<mcpVariant, frames>>

ImageSorceryTimesOut ==
    (\E c \in CallIds : callImageSorceryDetection_TimesOut(c)) /\ UNCHANGED <<loopVars, callVars>>

\* the caller of Spec, on the frames and answers of SpecLoop
LiveRequest ==
    /\ NoCallInProgress
    /\ \E image \in LoopImages \cup {ZeroImage} : detectBooks_Send(1, image)
    /\ UNCHANGED <<loopVars, callVars>>

LiveDetectorFails ==
    /\ \E c \in CallIds :
          \/ callYOLOMCP_Fails(c)
          \/ callOpenCVMCP_Fails(c)
          \/ callImageSorceryDetection_Fails(c)
    /\ UNCHANGED <<loopVars, callVars>>

LiveYoloAnswers ==
    /\ \E c \in CallIds, detections \in LoopAnswers : callYOLOMCP_Answers(c, detections)
    /\ UNCHANGED <<loopVars, callVars>>

LiveDetectorAnswers ==
    /\ \E c \in CallIds :
          \/ \E refined \in LoopAnswers : callOpenCVMCP_Answers(c, refined, TRUE)
          \/ callOpenCVMCP_Answers(c, <<>>, FALSE)
          \/ \E detections \in LoopAnswers : callImageSorceryDetection_Answers(c, detections)
    /\ UNCHANGED <<loopVars, callVars>>

NextLive ==
    \/ LiveRequest
    \/ LiveDetectorFails
    \/ LiveYoloAnswers
    \/ LiveDetectorAnswers
    \/ ImageSorceryTimesOut

SpecLive == Init /\ [][NextLive]_vars /\ WF_vars(ImageSorceryTimesOut)

(***************************************************************************)
(* SpecOptimizer: SpatialOptimizer (part_001) called on its own.  Here a   *)
(* book's x, y, width, height and estimatedThickness are whole pixels, and *)
(* width, height and thickness are positive.  Footprints are px^2;         *)
(* volumeGain is kept in tenths of a px^2 because the stacking heuristic   *)
(* multiplies by 0.6.  The arithmetic is exact: the rounding of IEEE       *)
(* doubles is not part of it.                                              *)
(***************************************************************************)
MaxBooks == 2

\* Math.round(num / den) for den > 0: the nearest integer, a half going up
Round(num, den) == (2 * num + den) \div (2 * den)

\* analyzeRotation that accepts any positive saving
analyzeRotation_AnySaving(book) ==
    LET currentFootprint == book.width * book.estimatedThickness
        rotatedFootprint == book.height * book.estimatedThickness
        spaceSaved == currentFootprint - rotatedFootprint
        beneficial == /\ 2 * book.height < 5 * book.width
                      /\ book.width > 30
                      /\ spaceSaved > 0
    IN  [beneficial |-> beneficial,
         spaceGain |-> IF beneficial THEN Round(100 * spaceSaved, currentFootprint) ELSE 0,
         volumeGain |-> IF beneficial THEN 10 * spaceSaved ELSE 0]

\* part_001 96-124: SpatialOptimizer.analyzeRotation
analyzeRotation(book) ==
    LET currentFootprint == book.width * book.estimatedThickness
        rotatedFootprint == book.height * book.estimatedThickness
        spaceSaved == currentFootprint - rotatedFootprint
        beneficial == /\ 2 * book.height < 5 * book.width
                      /\ book.width > 30
                      /\ spaceSaved > 5
    IN  [beneficial |-> beneficial,
         spaceGain |-> IF beneficial THEN Round(100 * spaceSaved, currentFootprint) ELSE 0,
         volumeGain |-> IF beneficial THEN 10 * spaceSaved ELSE 0]

\* analyzeStacking that discounts the upright footprint instead of the stacked one
analyzeStacking_DiscountsUpright(book) ==
    LET currentFootprint == book.width * book.estimatedThickness
        stackedFootprint == book.height * book.estimatedThickness
        spaceSaved == Max(0, 10 * stackedFootprint - 6 * currentFootprint)
        beneficial == /\ book.height > 120
                      /\ book.width < 35
                      /\ book.estimatedThickness < 25
                      /\ spaceSaved > 30
    IN  [beneficial |-> beneficial,
         spaceGain |-> IF beneficial /\ currentFootprint > 0
                       THEN Round(100 * spaceSaved, 10 * currentFootprint) ELSE 0,
         volumeGain |-> IF beneficial THEN spaceSaved ELSE 0]

\* part_001 126-154: SpatialOptimizer.analyzeStacking; spaceSaved in tenths
analyzeStacking(book) ==
    LET currentFootprint == book.width * book.estimatedThickness
        stackedFootprint == book.height * book.estimatedThickness
        spaceSaved == Max(0, 10 * currentFootprint - 6 * stackedFootprint)
        beneficial == /\ book.height > 120
                      /\ book.width < 35
                      /\ book.estimatedThickness < 25
                      /\ spaceSaved > 30
    IN  [beneficial |-> beneficial,
         spaceGain |-> IF beneficial THEN Round(100 * spaceSaved, 10 * currentFootprint) ELSE 0,
         volumeGain |-> IF beneficial THEN spaceSaved ELSE 0]

\* analyzeFaceOut that turns down a book whose face-out costs depth
analyzeFaceOut_GatedByVolume(book) ==
    LET visibilityImprovement == 8 * book.width
        volumeImpact == book.estimatedThickness - book.width
        beneficial == /\ book.width > 45
                      /\ book.height > 80
                      /\ visibilityImprovement > 250
                      /\ volumeImpact >= 0
    IN  [beneficial |-> beneficial,
         visibilityGain |-> IF beneficial THEN Round(visibilityImprovement, 10) ELSE 0,
         volumeGain |-> IF beneficial THEN 10 * volumeImpact ELSE 0]

\* part_001 156-182: SpatialOptimizer.analyzeFaceOut; visibilityImprovement in tenths
analyzeFaceOut(book) ==
    LET visibilityImprovement == 8 * book.width
        volumeImpact == book.estimatedThickness - book.width
        beneficial == /\ book.width > 45
                      /\ book.height > 80
                      /\ visibilityImprovement > 250
    IN  [beneficial |-> beneficial,
         visibilityGain |-> IF beneficial THEN Round(visibilityImprovement, 10) ELSE 0,
         volumeGain |-> IF beneficial THEN 10 * volumeImpact ELSE 0]

\* analyzeBookOptimization trying the heuristics in the order face-out, stack, rotate
analyzeBookOptimization_FaceOutFirst(book) ==
    IF analyzeFaceOut(book).beneficial
    THEN [canOptimize |-> TRUE, optimizationType |-> "faceout",
          efficiencyGain |-> analyzeFaceOut(book).visibilityGain,
          volumeGain |-> analyzeFaceOut(book).volumeGain,
          evaluated |-> <<"faceout">>]
    ELSE IF analyzeStacking(book).beneficial
    THEN [canOptimize |-> TRUE, optimizationType |-> "stack",
          efficiencyGain |-> analyzeStacking(book).spaceGain,
          volumeGain |-> analyzeStacking(book).volumeGain,
          evaluated |-> <<"faceout", "stack">>]
    ELSE IF analyzeRotation(book).beneficial
    THEN [canOptimize |-> TRUE, optimizationType |-> "rotate",
          efficiencyGain |-> analyzeRotation(book).spaceGain,
          volumeGain |-> analyzeRotation(book).volumeGain,
          evaluated |-> <<"faceout", "stack", "rotate">>]
    ELSE [canOptimize |-> FALSE, optimizationType |-> "none",
          efficiencyGain |-> 0, volumeGain |-> 0,
          evaluated |-> <<"faceout", "stack", "rotate">>]

\* part_001 44-94: SpatialOptimizer.analyzeBookOptimization.  evaluated lists
\* the heuristics the call ran, in the order it ran them.
analyzeBookOptimization(book) ==
    IF analyzeRotation(book).beneficial
    THEN [canOptimize |-> TRUE, optimizationType |-> "rotate",
          efficiencyGain |-> analyzeRotation(book).spaceGain,
          volumeGain |-> analyzeRotation(book).volumeGain,
          evaluated |-> <<"rotate">>]
    ELSE IF analyzeStacking(book).beneficial
    THEN [canOptimize |-> TRUE, optimizationType |-> "stack",
          efficiencyGain |-> analyzeStacking(book).spaceGain,
          volumeGain |-> analyzeStacking(book).volumeGain,
          evaluated |-> <<"rotate", "stack">>]
    ELSE IF analyzeFaceOut(book).beneficial
    THEN [canOptimize |-> TRUE, optimizationType |-> "faceout",
          efficiencyGain |-> analyzeFaceOut(book).visibilityGain,
          volumeGain |-> analyzeFaceOut(book).volumeGain,
          evaluated |-> <<"rotate", "stack", "faceout">>]
    ELSE [canOptimize |-> FALSE, optimizationType |-> "none",
          efficiencyGain |-> 0, volumeGain |-> 0,
          evaluated |-> <<"rotate", "stack", "faceout">>]

\* part_001 26-37: the suggestion pushed for a book; y in half pixels
Suggestion(book, analysis) ==
    [bookId |-> book.id,
     type |-> analysis.optimizationType,
     efficiency |-> analysis.efficiencyGain,
     volumeGain |-> analysis.volumeGain,
     x |-> book.x + book.width + 10,
     y |-> 2 * book.y + book.height,
     stable |-> TRUE]

\* part_001 19-42: SpatialOptimizer.generateOptimizationSuggestions
generateOptimizationSuggestions(books) ==
    LET idx == SelectSeq([i \in 1..Len(books) |-> i],
                         LAMBDA i : analyzeBookOptimization(books[i]).canOptimize)
    IN  [k \in 1..Len(idx) |-> Suggestion(books[idx[k]], analyzeBookOptimization(books[idx[k]]))]

RECURSIVE calculatePotentialGain(_)
\* part_001 200-210: SpatialOptimizer.calculatePotentialGain, in tenths of a
\* px^2: the forEach adds, book after book, the larger of the two gains
calculatePotentialGain(books) ==
    IF books = <<>> THEN 0
    ELSE LET rotationGain == analyzeRotation(Head(books)).volumeGain
             stackingGain == analyzeStacking(Head(books)).volumeGain
         IN  Max(rotationGain, stackingGain) + calculatePotentialGain(Tail(books))

\* the detections handed to the optimizer
ShelfBookShapes ==
    {[width |-> w, height |-> h, estimatedThickness |-> t] :
        w \in {20, 34, 60, 100}, h \in {50, 80, 95, 150}, t \in {1, 15, 40}}

ShelfBook(shape, n) ==
    [id |-> <<"book", n>>, x |-> 40 * n, y |-> 0] @@ shape

ShelfBookLists ==
    UNION {[1..n -> ShelfBookShapes] : n \in 0..MaxBooks}

\* the calls made on the optimizer
OptimizerCalls ==
    {[fn |-> "generateOptimizationSuggestions",
      books |-> [i \in 1..Len(shapes) |-> ShelfBook(shapes[i], i)]] : shapes \in ShelfBookLists}
    \cup {[fn |-> f, book |-> ShelfBook(shape, 1)] :
             f \in {"analyzeBookOptimization", "analyzeRotation", "analyzeStacking", "analyzeFaceOut"},
             shape \in ShelfBookShapes}

InitOptimizer ==
    /\ Constructed
    /\ mcpVariant = "YOLO_OpenCV"
    /\ input \in OptimizerCalls
    /\ output = NoCall

\* the pending call of function f returns result
Returns(f, result) ==
    /\ input.fn = f
    /\ output = NoCall
    /\ output' = [fn |-> f, result |-> result]
    /\ UNCHANGED <<ctlVars, loopVars, input, config>>

GenerateOptimizationSuggestions ==
    /\ input.fn = "generateOptimizationSuggestions"
    /\ Returns("generateOptimizationSuggestions", generateOptimizationSuggestions(input.books))

AnalyzeBookOptimization ==
    /\ input.fn = "analyzeBookOptimization"
    /\ Returns("analyzeBookOptimization", analyzeBookOptimization(input.book))

AnalyzeRotation ==
    /\ input.fn = "analyzeRotation"
    /\ Returns("analyzeRotation", analyzeRotation(input.book))

AnalyzeStacking ==
    /\ input.fn = "analyzeStacking"
    /\ Returns("analyzeStacking", analyzeStacking(input.book))

AnalyzeFaceOut ==
    /\ input.fn = "analyzeFaceOut"
    /\ Returns("analyzeFaceOut", analyzeFaceOut(input.book))

NextOptimizer ==
    \/ GenerateOptimizationSuggestions
    \/ AnalyzeBookOptimization
    \/ AnalyzeRotation
    \/ AnalyzeStacking
    \/ AnalyzeFaceOut

SpecOptimizer == InitOptimizer /\ [][NextOptimizer]_vars

(***************************************************************************)
(* SpecGain: the stacking heuristic and what depends on it, on books       *)
(* around its gate (height > 120, width < 35, thickness < 25), a thickness *)
(* of 0 included.                                                          *)
(***************************************************************************)
MaxGainBooks == 2

GainBookShapes ==
    {[width |-> w, height |-> h, estimatedThickness |-> t] :
        w \in {20, 34, 60}, h \in {50, 121, 150}, t \in {0, 1, 24}}

GainCalls ==
    {[fn |-> f, books |-> [i \in 1..Len(shapes) |-> ShelfBook(shapes[i], i)]] :
        f \in {"generateOptimizationSuggestions", "calculatePotentialGain"},
        shapes \in UNION {[1..n -> GainBookShapes] : n \in 0..MaxGainBooks}}
    \cup {[fn |-> "analyzeStacking", book |-> ShelfBook(shape, 1)] : shape \in GainBookShapes}

InitGain ==
    /\ Constructed
    /\ mcpVariant = "YOLO_OpenCV"
    /\ input \in GainCalls
    /\ output = NoCall

CalculatePotentialGain ==
    /\ input.fn = "calculatePotentialGain"
    /\ Returns("calculatePotentialGain", calculatePotentialGain(input.books))

SpecGain ==
    InitGain /\ [][GenerateOptimizationSuggestions \/ AnalyzeStacking
                       \/ CalculatePotentialGain]_vars

(***************************************************************************)
(* SpecFallback: the steps of FallbackDetection (fallback-detection.js     *)
(* 6-483) called on their own.  The pixel data is represented by what the  *)
(* scans compute from it: for detectShelves the average edge strength of   *)
(* the sampled rows, for detectBooksInShelf the average strength and the   *)
(* sample count of the scanned columns.                                    *)
(***************************************************************************)
MaxEdges == 3

\* avgStrength > 15
shelfStrengthThreshold == 15
\* y - 100, y + 100
shelfReach == 100
\* shelves[i].y - current.y < 80
shelfMergeGap == 80
\* for (y = height * 0.1; ...; y += step), step = 4
shelfStep == 4
\* config.edgeThreshold
edgeThreshold == 60
\* config.minEdgeSeparation
minEdgeSeparation == 12
\* maxEdgesPerShelf
maxEdgesPerShelf == 40
\* maxBooksPerShelf
maxBooksPerShelf == 20
\* config.minBookWidth, config.maxBookWidth
minBookWidth == 15
maxBookWidth == 45
\* config.confidenceThreshold, as hundredths
confidenceThreshold == 40

\* Array.prototype.sort with the comparator (a, b) => key(a) - key(b): ascending
\* in the keys, elements with equal keys in their input order
SortByKey(seq, keys) ==
    LET Rank(i) == Cardinality({j \in 1..Len(seq) :
                       keys[j] < keys[i] \/ (keys[j] = keys[i] /\ j < i)}) + 1
    IN  [r \in 1..Len(seq) |-> seq[CHOOSE i \in 1..Len(seq) : Rank(i) = r]]

\* lines 96-101: the band pushed for a sampled row; y, topY, bottomY in quarter pixels
ShelfBand(row, height) ==
    [y |-> 4 * row.y,
     strength |-> row.strength,
     topY |-> 4 * Max(0, row.y - shelfReach),
     bottomY |-> 4 * Min(height, row.y + shelfReach)]

\* lines 108-111: the two default bands, in quarter pixels
DefaultShelves(height) ==
    << [y |-> height, topY |-> 0, bottomY |-> 2 * height, strength |-> 10],
       [y |-> 3 * height, topY |-> 2 * height, bottomY |-> 4 * height, strength |-> 10] >>

RECURSIVE MergeFrom(_, _, _)
\* lines 122-132: the loop of mergeShelves from index i on, current in hand
MergeFrom(shelves, i, current) ==
    IF i > Len(shelves) THEN <<current>>
    ELSE IF shelves[i].y - current.y < 4 * shelfMergeGap
         THEN MergeFrom(shelves, i + 1,
                        [current EXCEPT !.strength = Max(current.strength, shelves[i].strength),
                                        !.bottomY = shelves[i].bottomY])
         ELSE <<current>> \o MergeFrom(shelves, i + 1, shelves[i])

\* lines 118-135: FallbackDetection.mergeShelves (called with at least one shelf)
mergeShelves(shelves) == MergeFrom(shelves, 2, shelves[1])

\* detectShelves that returns no band when no row passes the threshold
detectShelves_NoDefault(rows, height) ==
    LET strong == SelectSeq(rows, LAMBDA row : row.strength > shelfStrengthThreshold)
        shelves == [k \in 1..Len(strong) |-> ShelfBand(strong[k], height)]
    IN  IF Len(shelves) = 0
        THEN <<>>
        ELSE mergeShelves(SortByKey(shelves, [k \in 1..Len(shelves) |-> shelves[k].y]))

\* lines 69-116: FallbackDetection.detectShelves.  rows lists, in scan order,
\* the sampled rows whose avgStrength is a number above 0, with that strength;
\* the other rows (no samples, strength 0, or the NaN of a y that is no whole
\* number and indexes no pixel) pass no threshold.  height in whole pixels.
detectShelves(rows, height) ==
    LET strong == SelectSeq(rows, LAMBDA row : row.strength > shelfStrengthThreshold)
        shelves == [k \in 1..Len(strong) |-> ShelfBand(strong[k], height)]
    IN  IF Len(shelves) = 0
        THEN DefaultShelves(height)
        ELSE mergeShelves(SortByKey(shelves, [k \in 1..Len(shelves) |-> shelves[k].y]))

RECURSIVE FilterFrom(_, _, _, _)
\* lines 281-295: the loop of filterVerticalEdges from index i on
FilterFrom(sorted, i, filtered, lastX) ==
    IF i > Len(sorted) THEN filtered
    ELSE LET edge == sorted[i]
         IN  IF edge.x - lastX > minEdgeSeparation
             THEN IF 10 * edge.strength > 12 * edgeThreshold
                  THEN FilterFrom(sorted, i + 1, Append(filtered, edge), edge.x)
                  ELSE FilterFrom(sorted, i + 1, filtered, lastX)
             ELSE IF /\ Len(filtered) > 0
                     /\ 10 * edge.strength > 13 * filtered[Len(filtered)].strength
                  THEN FilterFrom(sorted, i + 1,
                                  [filtered EXCEPT ![Len(filtered)] = edge], edge.x)
                  ELSE FilterFrom(sorted, i + 1, filtered, lastX)

\* filterVerticalEdges that keeps every strong edge, however close to the last
filterVerticalEdges_KeepsClose(edges) ==
    LET sortedByStrength == SortByKey(edges, [k \in 1..Len(edges) |-> -edges[k].strength])
        strongestEdges == SubSeq(sortedByStrength, 1, Min(Len(edges), maxEdgesPerShelf))
        sorted == SortByKey(strongestEdges,
                            [k \in 1..Len(strongestEdges) |-> strongestEdges[k].x])
    IN  SelectSeq(sorted, LAMBDA edge : 10 * edge.strength > 12 * edgeThreshold)

\* lines 266-299: FallbackDetection.filterVerticalEdges; x in whole pixels
filterVerticalEdges(edges) ==
    LET sortedByStrength == SortByKey(edges, [k \in 1..Len(edges) |-> -edges[k].strength])
        strongestEdges == SubSeq(sortedByStrength, 1, Min(Len(edges), maxEdgesPerShelf))
        sorted == SortByKey(strongestEdges,
                            [k \in 1..Len(strongestEdges) |-> strongestEdges[k].x])
    IN  FilterFrom(sorted, 1, <<>>, -100)

\* lines 362-364: FallbackDetection.isValidBookWidth
isValidBookWidth(width) == width >= minBookWidth /\ width <= maxBookWidth

\* lines 404-422: FallbackDetection.validateBookRegion
validateBookRegion(width, leftEdge, rightEdge) ==
    /\ ~(10 * Min(leftEdge.strength, rightEdge.strength)
            < 3 * Max(leftEdge.strength, rightEdge.strength))
    /\ ~(width < 15 \/ width > 40)
    /\ ~(leftEdge.samples < 3 \/ rightEdge.samples < 3)
    /\ ~(10 * leftEdge.strength < 8 * edgeThreshold \/ 10 * rightEdge.strength < 8 * edgeThreshold)

\* lines 435-441: FallbackDetection.getWidthConfidenceFactor
getWidthConfidenceFactor(width) ==
    IF width >= 18 /\ width <= 32 THEN Conf(100)
    ELSE IF width >= 15 /\ width <= 40 THEN Conf(70)
    ELSE IF width >= 12 /\ width <= 45 THEN Conf(40)
    ELSE Conf(10)

\* lines 424-433: FallbackDetection.calculateBookConfidenceFromEdges
calculateBookConfidenceFromEdges(leftEdge, rightEdge, bookWidth) ==
    LET strengthFactor ==
            Min(ConfScale, ((leftEdge.strength + rightEdge.strength) * ConfScale) \div 250)
        widthFactor == getWidthConfidenceFactor(bookWidth)
        symmetryFactor ==
            Max(Conf(10),
                ConfScale - (Abs(leftEdge.strength - rightEdge.strength) * ConfScale)
                                \div Max(leftEdge.strength, rightEdge.strength))
        sampleFactor ==
            Min(ConfScale, ((leftEdge.samples + rightEdge.samples) * ConfScale) \div 12)
        confidence ==
            (35 * strengthFactor + 45 * widthFactor + 10 * symmetryFactor + 10 * sampleFactor)
                \div 100
    IN  Min(Conf(80), confidence)

RECURSIVE BooksFrom(_, _, _, _, _)
\* lines 179-213: the loop over pairs of neighbouring edges from index i on
BooksFrom(filteredEdges, i, books, shelf, shelfIndex) ==
    IF i > Len(filteredEdges) - 1 THEN books
    ELSE LET leftEdge == filteredEdges[i]
             rightEdge == filteredEdges[i + 1]
             bookWidth == rightEdge.x - leftEdge.x
             confidence == calculateBookConfidenceFromEdges(leftEdge, rightEdge, bookWidth)
             shelfTop == (shelf.topY * GeoScale) \div 4
             shelfHeight == ((shelf.bottomY - shelf.topY) * GeoScale) \div 4
         IN  IF /\ isValidBookWidth(bookWidth)
                /\ confidence > Conf(confidenceThreshold)
                /\ validateBookRegion(bookWidth, leftEdge, rightEdge)
             THEN BooksFrom(filteredEdges, i + 1,
                            Append(books, FallbackBook(shelfIndex, Len(books), Px(leftEdge.x),
                                                       Px(bookWidth), shelfTop, shelfHeight,
                                                       confidence)),
                            shelf, shelfIndex)
             ELSE BooksFrom(filteredEdges, i + 1, books, shelf, shelfIndex)

\* lines 137-226: FallbackDetection.detectBooksInShelf.  columns lists, in scan
\* order, the scanned columns with samples > 0: x, avgStrength, samples.  The
\* shelf is a band of detectShelves (quarter pixels).
detectBooksInShelf(columns, shelf, shelfIndex) ==
    LET kept == SelectSeq(columns,
                          LAMBDA col : col.strength > edgeThreshold /\ col.samples > 3)
        verticalEdges == [k \in 1..Len(kept) |->
                             [x |-> kept[k].x, strength |-> kept[k].strength,
                              shelfIndex |-> shelfIndex, samples |-> kept[k].samples]]
        books == BooksFrom(filterVerticalEdges(verticalEdges), 1, <<>>, shelf, shelfIndex)
    IN  IF Len(books) > maxBooksPerShelf
        THEN LET byConfidence ==
                     SortByKey(books, [k \in 1..Len(books) |-> -books[k].confidence])
                 best == SubSeq(byConfidence, 1, maxBooksPerShelf)
             IN  SortByKey(best, [k \in 1..Len(best) |-> best[k].x])
        ELSE books

MaxRows == 2

\* the elements of a finite set of integers in ascending order
Ascending(S) ==
    [r \in 1..Cardinality(S) |-> CHOOSE y \in S : Cardinality({z \in S : z < y}) = r - 1]

\* heights of the pixel buffers given to detectShelves
ShelfHeights == {7, 50, 400}

\* lines 74: the rows detectShelves samples, y = height * 0.1 + 4k below
\* height * 0.9, of which the inputs use those at a few offsets; for a height
\* that is no multiple of 10 no sampled y is a whole number
SampledRows(height) ==
    IF height % 10 # 0 THEN {}
    ELSE {y \in (height \div 10)..((9 * height) \div 10 - 1) :
             /\ (y - height \div 10) % shelfStep = 0
             /\ (y - height \div 10) \in {0, 4, 76, 80, 84, 160, 316}}

RowLists(height) ==
    UNION {{[k \in 1..Cardinality(S) |-> [y |-> Ascending(S)[k], strength |-> f[Ascending(S)[k]]]] :
               f \in [S -> {10, 15, 16, 40}]} :
           S \in {T \in SUBSET SampledRows(height) : Cardinality(T) <= MaxRows}}

\* edge candidates given to filterVerticalEdges, in any order
EdgePool ==
    {[x |-> x, strength |-> st, shelfIndex |-> 0, samples |-> 6] :
        x \in {3, 9, 15, 30}, st \in {60, 73, 95}}

\* more candidates than maxEdgesPerShelf, every third column
ManyEdges ==
    [k \in 1..(maxEdgesPerShelf + 2) |->
        [x |-> 3 * k, strength |-> 73 + 25 * (k % 3), shelfIndex |-> 0, samples |-> 6]]

EdgeLists ==
    UNION {[1..n -> EdgePool] : n \in 0..MaxEdges} \cup {ManyEdges}

\* column measurements given to detectBooksInShelf, in scan order
ColumnLists ==
    UNION {{[k \in 1..Cardinality(S) |->
                [x |-> Ascending(S)[k],
                 strength |-> f[Ascending(S)[k]][1],
                 samples |-> f[Ascending(S)[k]][2]]] :
               f \in [S -> {<<60, 6>>, <<73, 6>>, <<100, 6>>, <<125, 6>>, <<100, 2>>}]} :
           S \in {T \in SUBSET {3, 9, 21, 24, 48} : Cardinality(T) <= MaxEdges}}

\* shelf bands given to detectBooksInShelf (quarter pixels)
ShelfBands ==
    << [y |-> 400, topY |-> 0, bottomY |-> 800, strength |-> 10],
       [y |-> 456, topY |-> 56, bottomY |-> 512, strength |-> 40],
       [y |-> 472, topY |-> 464, bottomY |-> 480, strength |-> 40] >>

\* the calls made on the fallback pipeline's steps
FallbackCalls ==
    UNION {{[fn |-> "detectShelves", rows |-> rows, height |-> height] :
               rows \in RowLists(height)} : height \in ShelfHeights}
    \cup {[fn |-> "filterVerticalEdges", edges |-> edges] : edges \in EdgeLists}
    \cup {[fn |-> "detectBooksInShelf", columns |-> columns,
           shelf |-> ShelfBands[i], shelfIndex |-> i - 1] :
             columns \in ColumnLists, i \in 1..Len(ShelfBands)}

InitFallback ==
    /\ Constructed
    /\ mcpVariant = "YOLO_OpenCV"
    /\ input \in FallbackCalls
    /\ output = NoCall

DetectShelves ==
    /\ input.fn = "detectShelves"
    /\ Returns("detectShelves", detectShelves(input.rows, input.height))

FilterVerticalEdges ==
    /\ input.fn = "filterVerticalEdges"
    /\ Returns("filterVerticalEdges", filterVerticalEdges(input.edges))

DetectBooksInShelf ==
    /\ input.fn = "detectBooksInShelf"
    /\ Returns("detectBooksInShelf",
               detectBooksInShelf(input.columns, input.shelf, input.shelfIndex))

NextFallback ==
    \/ DetectShelves
    \/ FilterVerticalEdges
    \/ DetectBooksInShelf

SpecFallback == InitFallback /\ [][NextFallback]_vars

(***************************************************************************)
(* SpecStabilize: BookDetectionController.stabilizeBookPositions           *)
(* (fallback-detection.js 982-1043) called on its own with lists of new    *)
(* and previous books.  The positions lie 10 to 60 px apart, so            *)
(* that equally close candidates and a candidate at exactly the limit      *)
(* occur; the previous books differ in width, which tells them apart in    *)
(* a blended result.                                                       *)
(***************************************************************************)
MaxStabilized == 2

\* where the books of the calls lie: <<x, y>> in pixels
BookPositions == {<<100, 0>>, <<110, 0>>, <<130, 0>>, <<160, 0>>, <<130, 40>>}

\* new detections, as processDetectionResults hands them in
NewBookLists ==
    UNION {{[k \in 1..n |->
                [id |-> <<"yolo", k - 1>>, x |-> Px(at[k][1]), y |-> Px(at[k][2]),
                 width |-> Px(40), height |-> Px(150), confidence |-> Conf(50)]] :
               at \in [1..n -> BookPositions]} : n \in 0..MaxStabilized}

\* previous stabilized books (this.stableBooks), the k-th of width 20 + 10 k
OldBookLists ==
    UNION {{[k \in 1..n |->
                [id |-> <<"opencv", k - 1>>, x |-> Px(at[k][1]), y |-> Px(at[k][2]),
                 width |-> Px(20 + 10 * k), height |-> Px(150), confidence |-> Conf(50),
                 stable |-> TRUE]] :
               at \in [1..n -> BookPositions]} : n \in 0..MaxStabilized}

StabilizeCalls ==
    {[fn |-> "stabilizeBookPositions", newBooks |-> newBooks, oldBooks |-> oldBooks] :
        newBooks \in NewBookLists, oldBooks \in OldBookLists}

InitStabilize ==
    /\ Constructed
    /\ mcpVariant = "YOLO_OpenCV"
    /\ input \in StabilizeCalls
    /\ output = NoCall

StabilizeBookPositions ==
    /\ input.fn = "stabilizeBookPositions"
    /\ Returns("stabilizeBookPositions",
               stabilizeBookPositions(input.newBooks, input.oldBooks))

NextStabilize == StabilizeBookPositions

SpecStabilize == InitStabilize /\ [][NextStabilize]_vars

(***************************************************************************)
(* SpecDecay: processDetectionResults (fallback-detection.js 954-980)      *)
(* called frame after frame, as long as frames come in, with the processed *)
(* detections of a frame that is empty, shows one book at x = 100 or shows *)
(* one book at x = 350.  The books come with confidence 0.32, so that a    *)
(* stored book nothing matches is gone after DecayHorizon frames.          *)
(***************************************************************************)
MaxDecayFrames == 5

\* frames an unmatched book of confidence 0.32 at most survives, plus one:
\* 0.288 (stable), 0.2592 (0.288 > 0.3 fails: not stable), dropped
DecayHorizon == 3

\* the detector's answers for the three kinds of frame
DecayAnswers ==
    {<<>>, <<DetectorPool[1]>>, <<[DetectorPool[1] EXCEPT !.x = Px(350)]>>}

\* the x of the books of those frames
DecayPlaces == {Px(100), Px(350)}

\* processDetectionResults(books, 'MCP') for the next frame
ProcessFrame ==
    /\ frames < MaxDecayFrames
    /\ frames' = frames + 1
    /\ \E detections \in DecayAnswers :
          ProcessDetectionResults(processDetections_YOLO(detections), "MCP")
    /\ UNCHANGED <<mcpVariant, calls, loopVars, callVars>>

NextDecay == ProcessFrame

\* frames keep being processed
SpecDecay == Init /\ [][NextDecay]_vars /\ WF_vars(ProcessFrame)

(***************************************************************************)
(* SpecFrames: processDetectionResults (fallback-detection.js 954-980)     *)
(* called frame after frame with one raw book or none, the book coming     *)
(* from the detector path or from the local pipeline.  Every raw book has  *)
(* width > 0, height > 0 and a confidence in [0, 1], the ends of that      *)
(* range included; the books lie within 50 px of each other, so they match *)
(* across frames, and differ in id, thickness, flags and method.           *)
(***************************************************************************)
MaxRawFrames == 3

\* the books of the detector path: a spine at x = 100 or 120 of confidence 0.16
\* or 1, and a speck of confidence 0
DetectorRawBooks ==
    {McpBook_YOLO([x |-> Px(x), y |-> 0, width |-> Px(40), height |-> Px(150),
                   confidence |-> Conf(c)], 0) : x \in {100, 120}, c \in {16, 100}}
    \cup {McpBook_YOLO([x |-> Px(100), y |-> 0, width |-> Px(1), height |-> Px(1),
                        confidence |-> 0], 0)}

\* the books of the local pipeline: 50 px wide in a band of 100 px
FallbackRawBooks ==
    {FallbackBook(0, 0, Px(x), Px(50), 0, Px(100), Conf(45)) : x \in {110, 140}}

\* processDetectionResults(books, 'MCP') for the next frame
FrameFromDetector ==
    /\ frames < MaxRawFrames
    /\ frames' = frames + 1
    /\ \E books \in {<<>>} \cup {<<book>> : book \in DetectorRawBooks} :
          ProcessDetectionResults(books, "MCP")
    /\ UNCHANGED <<mcpVariant, calls, loopVars, callVars>>

\* processDetectionResults(books, 'Fallback') for the next frame
FrameFromFallback ==
    /\ frames < MaxRawFrames
    /\ frames' = frames + 1
    /\ \E book \in FallbackRawBooks : ProcessDetectionResults(<<book>>, "Fallback")
    /\ UNCHANGED <<mcpVariant, calls, loopVars, callVars>>

SpecFrames == Init /\ [][FrameFromDetector \/ FrameFromFallback]_vars

(***************************************************************************)
(* SpecHistory: detectBooks calls that complete, one after the other, more *)
(* of them than detectionHistory holds.  A frame is empty or shows one     *)
(* book, found by the detector or by the local pipeline.                   *)
(***************************************************************************)
MaxHistoryFrames == 7

\* detectBooks whose detector call succeeded: processDetectionResults(books, 'MCP')
FrameCompletesByDetector ==
    /\ frames < MaxHistoryFrames
    /\ frames' = frames + 1
    /\ \E detections \in {<<>>, <<DetectorPool[1]>>} :
          ProcessDetectionResults(processDetections_YOLO(detections), "MCP")
    /\ UNCHANGED <<mcpVariant, calls, loopVars, callVars>>

\* detectBooks whose detector call failed: processDetectionResults(books, 'Fallback')
FrameCompletesByFallback ==
    /\ frames < MaxHistoryFrames
    /\ frames' = frames + 1
    /\ ProcessDetectionResults(<<FallbackBook(0, 0, Px(110), Px(50), 0, Px(100), Conf(45))>>,
                               "Fallback")
    /\ UNCHANGED <<mcpVariant, calls, loopVars, callVars>>

SpecHistory == Init /\ [][FrameCompletesByDetector \/ FrameCompletesByFallback]_vars

(***************************************************************************)
(* SpecLines: the line-based FallbackDetection (book-dimensions-db.js      *)
(* 233-495), one object called frame after frame.  A pixel buffer is       *)
(* represented by its height and by what findVerticalColorChanges computes *)
(* per scanned column with samples: x, the mean y, avgChange (strength)    *)
(* and maxChange (maxStrength).  Lengths are whole pixels here.            *)
(***************************************************************************)

\* config.edgeThreshold after the retry
retryEdgeThreshold == 20
\* line.x - arr[i - 1].x > 8
minLineSeparation == 8
\* filtered.length > 50
maxLines == 50
\* config.minBookWidth, config.maxBookWidth
minLineBookWidth == 12
maxLineBookWidth == 90
\* confidence < 0.2, as hundredths
minLineConfidence == 20

\* lines 362-374: calculateDynamicThreshold, in tenths
calculateDynamicThreshold(maxChange, avgChange, baseThreshold) ==
    IF maxChange > 3 * (avgChange + 1) THEN 8 * baseThreshold
    ELSE IF 2 * maxChange < 3 * (avgChange + 1) THEN 12 * baseThreshold
    ELSE 10 * baseThreshold

\* lines 376-394: filterAndSortLines
filterAndSortLines(lines) ==
    LET arr == SortByKey(lines, [k \in 1..Len(lines) |-> lines[k].x])
        keptIdx == SelectSeq([i \in 1..Len(arr) |-> i],
                             LAMBDA i : i = 1 \/ arr[i].x - arr[i - 1].x > minLineSeparation)
        filtered == [k \in 1..Len(keptIdx) |-> arr[keptIdx[k]]]
    IN  IF Len(filtered) > maxLines
        THEN LET byStrength ==
                     SortByKey(filtered, [k \in 1..Len(filtered) |-> -filtered[k].strength])
                 strongest == SubSeq(byStrength, 1, maxLines)
             IN  SortByKey(strongest, [k \in 1..Len(strongest) |-> strongest[k].x])
        ELSE filtered

\* lines 290-333: findVerticalColorChanges with config.edgeThreshold = threshold
findVerticalColorChanges(columns, threshold) ==
    filterAndSortLines(
        SelectSeq(columns,
                  LAMBDA col : 10 * col.strength
                                  > calculateDynamicThreshold(col.maxStrength, col.strength,
                                                              threshold)))

\* lines 396-398: isValidBookWidth
isValidLineBookWidth(width) == width >= minLineBookWidth /\ width <= maxLineBookWidth

\* lines 447-453: getWidthConfidenceFactor
getLineWidthConfidenceFactor(width) ==
    IF width >= 20 /\ width <= 50 THEN Conf(100)
    ELSE IF width >= 15 /\ width <= 70 THEN Conf(80)
    ELSE IF width >= 12 /\ width <= 90 THEN Conf(60)
    ELSE Conf(30)

\* lines 455-461: getSymmetryFactor
getSymmetryFactor(leftLine, rightLine) ==
    Max(Conf(10),
        ConfScale - (2 * Abs(leftLine.strength - rightLine.strength) * ConfScale)
                        \div (leftLine.strength + rightLine.strength))

\* lines 438-445: calculateBookConfidence
calculateBookConfidence(leftLine, rightLine, bookWidth) ==
    LET strengthFactor ==
            Min(ConfScale, ((leftLine.strength + rightLine.strength) * ConfScale) \div 200)
        widthFactor == getLineWidthConfidenceFactor(bookWidth)
        symmetryFactor == getSymmetryFactor(leftLine, rightLine)
    IN  Min(Conf(95), (40 * strengthFactor + 40 * widthFactor + 20 * symmetryFactor) \div 100)

\* lines 400-436: createBookFromLines; <<>> stands for null, <<book>> for a book
createBookFromLines(leftLine, rightLine, imageHeight, bookIndex) ==
    LET bookWidth == rightLine.x - leftLine.x
        shelfHeight == Px(imageHeight) \div 2
        shelfIndex == IF leftLine.y + rightLine.y < imageHeight THEN 0 ELSE 1
        confidence == calculateBookConfidence(leftLine, rightLine, bookWidth)
        bookHeight == (shelfHeight * 8) \div 10
    IN  IF confidence < Conf(minLineConfidence) THEN <<>>
        ELSE << [id |-> <<"fallback_book", bookIndex>>,
                 x |-> Px(leftLine.x),
                 y |-> shelfIndex * shelfHeight,
                 width |-> Px(bookWidth),
                 height |-> bookHeight,
                 confidence |-> confidence,
                 estimatedThickness |-> (Px(bookWidth) * 6) \div 10,
                 canRotate |-> bookHeight < Px(bookWidth) * 3,
                 canStack |-> bookHeight > Px(100) /\ Px(bookWidth) < Px(30),
                 detectionMethod |-> "Fallback_Enhanced"] >>

RECURSIVE LinesIntoBooksFrom(_, _, _, _)
\* lines 272-285: the loop of processLinesIntoBooks from index i on
LinesIntoBooksFrom(verticalLines, i, books, height) ==
    IF i > Len(verticalLines) - 1 THEN books
    ELSE IF isValidLineBookWidth(verticalLines[i + 1].x - verticalLines[i].x)
         THEN LinesIntoBooksFrom(verticalLines, i + 1,
                                 books \o createBookFromLines(verticalLines[i],
                                                              verticalLines[i + 1],
                                                              height, Len(books)),
                                 height)
         ELSE LinesIntoBooksFrom(verticalLines, i + 1, books, height)

\* lines 269-288: processLinesIntoBooks
processLinesIntoBooks(verticalLines, height) ==
    LinesIntoBooksFrom(verticalLines, 1, <<>>, height)

\* lines 245-267: FallbackDetection.detectBooks run with this.config = cfg: the
\* books it returns and this.config afterwards
detectBooksByLines(image, cfg) ==
    LET verticalLines == findVerticalColorChanges(image.columns, cfg.edgeThreshold)
    IN  IF Len(verticalLines) = 0
        THEN LET lowered == [cfg EXCEPT !.edgeThreshold = retryEdgeThreshold]
             IN  [books |-> processLinesIntoBooks(
                                findVerticalColorChanges(image.columns, lowered.edgeThreshold),
                                image.height),
                  config |-> lowered]
        ELSE [books |-> processLinesIntoBooks(verticalLines, image.height), config |-> cfg]

\* the pixel buffers: 200 px high, with a colour change in some of the columns
\* 4, 12, 24, 44, each a faint one (avgChange 30, maxChange 40) or a clear one
\* (avgChange 60, maxChange 80)
LineImages ==
    UNION {{[height |-> 200,
             columns |-> [k \in 1..Cardinality(S) |->
                             [x |-> Ascending(S)[k], y |-> 100,
                              strength |-> f[Ascending(S)[k]][1],
                              maxStrength |-> f[Ascending(S)[k]][2],
                              samples |-> 35]]] :
               f \in [S -> {<<30, 40>>, <<60, 80>>}]} : S \in SUBSET {4, 12, 24, 44}}

\* detectBooks(imageData) on the next buffer
DetectBooksByLines ==
    /\ \E image \in LineImages :
          LET call == detectBooksByLines(image, config)
          IN  /\ input' = [fn |-> "detectBooks", image |-> image]
              /\ output' = [fn |-> "detectBooks", result |-> call.books]
              /\ config' = call.config
    /\ UNCHANGED <<ctlVars, loopVars>>

SpecLines == Init /\ [][DetectBooksByLines]_vars

(***************************************************************************)
(* Properties.                                                             *)
(***************************************************************************)
\* indexes of the old books of the last frame that no new book claimed
UnmatchedOld ==
    {i \in 1..Len(lastFrame.old) : \A k \in 1..Len(lastFrame.match) : lastFrame.match[k] # i}

SameGeometry(a, b) ==
    a.x = b.x /\ a.y = b.y /\ a.width = b.width /\ a.height = b.height

\* the stabilized set holds old book b, decayed: same id and geometry,
\* nine tenths of its confidence
HeldDecayed(b) ==
    \E j \in 1..Len(stableBooks) :
        /\ stableBooks[j].id = b.id
        /\ SameGeometry(stableBooks[j], b)
        /\ 10 * stableBooks[j].confidence = 9 * b.confidence

ReturnsRawGeometry(flag) ==
    /\ Len(stableBooks) = Len(lastFrame.raw)
    /\ \A i \in 1..Len(lastFrame.raw) :
          /\ SameGeometry(stableBooks[i], lastFrame.raw[i])
          /\ stableBooks[i].id = lastFrame.raw[i].id
          /\ stableBooks[i].stable = flag

\* ... and the same confidence as well
ReturnsRawWithStable(flag) ==
    /\ ReturnsRawGeometry(flag)
    /\ \A i \in 1..Len(lastFrame.raw) :
          stableBooks[i].confidence = lastFrame.raw[i].confidence

C3_NoneAtOrBelowDropFloor ==
    \A i \in 1..Len(stableBooks) : stableBooks[i].confidence > Conf(dropConfidence)

\* C3 failing case reached: a raw detection at or below 0.15 stabilized against
\* an empty stored set
C3_FirstFrameLowConfidence ==
    /\ lastFrame.path = "first"
    /\ \E i \in 1..Len(lastFrame.raw) : lastFrame.raw[i].confidence <= Conf(dropConfidence)

\* a network step of the external detector failed in this step
DetectorFails ==
    \E c \in CallIds : \/ callYOLOMCP_Fails(c)
                       \/ callOpenCVMCP_Fails(c)
                       \/ callImageSorceryDetection_Fails(c)

\* exactly one entry was appended to the history (the oldest dropped when full)
OneEntryAppended ==
    LET n == Len(detectionHistory')
    IN  /\ n >= 1
        /\ IF Len(detectionHistory) < maxHistorySize
           THEN SubSeq(detectionHistory', 1, n - 1) = detectionHistory
           ELSE SubSeq(detectionHistory', 1, n - 1) = Tail(detectionHistory)

\* every book of the next stabilized set that names an external detector as
\* its method was already stored, with the same id and geometry
NoDetectorBookEnters ==
    \A j \in 1..Len(stableBooks') :
        stableBooks'[j].detectionMethod \in {"MCP_YOLO_OpenCV", "ImageSorcery_MCP"}
            => \E i \in 1..Len(stableBooks) :
                  /\ stableBooks[i].id = stableBooks'[j].id
                  /\ SameGeometry(stableBooks[i], stableBooks'[j])

\* C4: when a network step of the external detector fails, detectBooks returns
\* the local pipeline's result with detectionType 'Fallback', appends exactly one
\* history entry, and nothing the failed call had received reaches the
\* stabilizer state.
C4_DetectorFailureFallsBack ==
    [][DetectorFails =>
          /\ lastResult'.status = "ok"
          /\ lastResult'.detectionType = "Fallback"
          /\ lastResult'.books = stableBooks'
          /\ OneEntryAppended
          /\ detectionHistory'[Len(detectionHistory')].type = "Fallback"
          /\ NoDetectorBookEnters]_vars

\* C4 witness: a call on a buffer with spines returned the fallback's books (the
\* request had been sent, so it was a network step that failed)
C4_Witness ==
    /\ lastResult.status = "ok"
    /\ lastResult.detectionType = "Fallback"
    /\ Len(lastFrame.raw) > 0
    /\ Len(detectionHistory) >= 2

\* a detectBooks call made on a buffer of zero size settles in this step
ZeroBufferCallSettles ==
    \/ \E image \in Images : detectBooks_EncodeThrows(image)
    \/ \E c \in CallIds :
          /\ calls[c].pc # "idle"
          /\ calls'[c].pc = "idle"
          /\ calls[c].image.width = 0 \/ calls[c].image.height = 0

\* C6: detectBooks on a buffer of zero size reports a failure and leaves the
\* stored detection set and the detection history as they were.
C6_ZeroBufferRejected ==
    [][ZeroBufferCallSettles =>
          /\ lastResult'.status = "error"
          /\ stableBooks' = stableBooks
          /\ detectionHistory' = detectionHistory]_vars

\* C7: no two detections of a stabilized set have the same id.
C7_UniqueIds ==
    \A i, j \in 1..Len(stableBooks) :
        i # j => stableBooks[i].id # stableBooks[j].id

\* C8: every detection of every returned result has width > 0, height > 0 and
\* confidence within [0, 1].
C8_WellFormedDetections ==
    lastResult.status = "ok" =>
        \A i \in 1..Len(lastResult.books) :
            /\ lastResult.books[i].width > 0
            /\ lastResult.books[i].height > 0
            /\ lastResult.books[i].confidence >= 0
            /\ lastResult.books[i].confidence <= ConfScale

\* C9: a previous detection retained without a match has stable = true if and
\* only if its decayed confidence (previous confidence x 0.9) is above 0.3.
C9_StableIffDecayedAboveThreshold ==
    lastFrame.path = "match" =>
        \A i \in UnmatchedOld, j \in 1..Len(stableBooks) :
            (/\ stableBooks[j].id = lastFrame.old[i].id
             /\ SameGeometry(stableBooks[j], lastFrame.old[i])
             /\ 10 * stableBooks[j].confidence = 9 * lastFrame.old[i].confidence)
                => (stableBooks[j].stable <=> stableBooks[j].confidence > Conf(stableConfidence))

\* the last two frames carried the same raw detection set, and the first of
\* them was stabilized against an empty stored set
SameRawTwiceFromEmpty ==
    LET n == Len(detectionHistory)
    IN  /\ lastFrame.before = "first"
        /\ n >= 2
        /\ detectionHistory[n].books = detectionHistory[n - 1].books
        /\ detectionHistory[n].books = lastFrame.raw

\* C10: from an empty stabilizer state, the same raw set fed in two consecutive
\* frames yields a second stabilized set with the raw x, y, width and height,
\* every detection stable, none added and none lost.
C10_SameFrameTwiceIsStable ==
    SameRawTwiceFromEmpty => ReturnsRawGeometry(TRUE)

\* C10 witness: two raw detections fed twice, matched one to one
C10_Witness ==
    /\ SameRawTwiceFromEmpty
    /\ lastFrame.path = "match"
    /\ Len(lastFrame.raw) >= 2
    /\ \A k \in 1..Len(lastFrame.match) : lastFrame.match[k] = k
    /\ ReturnsRawGeometry(TRUE)

\* detectBooks invocations in progress
InProgress == {c \in CallIds : calls[c].pc # "idle"}

\* live chains of the detection loop: suspended activations and scheduled callbacks
LoopChains ==
    Cardinality({c \in CallIds : awaiting[c].active})
        + orphanCallbacks
        + (IF animationFrame = "pending" THEN 1 ELSE 0)

\* C5: at most one detectBooks invocation is in progress on the controller, and
\* the detection loop never runs as two simultaneous chains.
C5_OneDetectionAtATime ==
    Cardinality(InProgress) <= 1 /\ LoopChains <= 1

\* new book k of the last frame claimed an old book, and the stabilized set
\* holds their blend: geometry old x 0.6 + new x 0.4, confidence
\* max(old x 0.8 + new x 0.2, 0.3), stable
HoldsBlend(k) ==
    LET newBook == lastFrame.raw[k]
        oldBook == lastFrame.old[lastFrame.match[k]]
    IN  \E j \in 1..Len(stableBooks) :
            /\ stableBooks[j].id = newBook.id
            /\ 10 * stableBooks[j].x = 6 * oldBook.x + 4 * newBook.x
            /\ 10 * stableBooks[j].y = 6 * oldBook.y + 4 * newBook.y
            /\ 10 * stableBooks[j].width = 6 * oldBook.width + 4 * newBook.width
            /\ 10 * stableBooks[j].height = 6 * oldBook.height + 4 * newBook.height
            /\ 10 * stableBooks[j].confidence
                  = Max(8 * oldBook.confidence + 2 * newBook.confidence, 10 * Conf(stableConfidence))
            /\ stableBooks[j].stable

\* C11: a new detection that matches a previous one is returned with x, y, width
\* and height equal to old x 0.6 + new x 0.4, confidence equal to
\* max(old x 0.8 + new x 0.2, 0.3), and stable = true.
C11_MatchIsBlended ==
    lastFrame.path = "match" =>
        \A k \in 1..Len(lastFrame.match) : lastFrame.match[k] # 0 => HoldsBlend(k)

\* C11 witness: a match between books at different places whose blended
\* confidence was lifted to 0.3
C11_Witness ==
    /\ lastFrame.path = "match"
    /\ \E k \in 1..Len(lastFrame.match) :
          /\ lastFrame.match[k] # 0
          /\ lastFrame.old[lastFrame.match[k]].x # lastFrame.raw[k].x
          /\ 8 * lastFrame.old[lastFrame.match[k]].confidence + 2 * lastFrame.raw[k].confidence
                < 10 * Conf(stableConfidence)
          /\ HoldsBlend(k)

\* Distances between the (x, y) of two books against a limit in pixels, by the
\* squares in units of 1/25 px (the differences rounded down to that unit, so
\* Within is exact up to 1/25 px and Beyond never holds of a pair that is not
\* farther apart than the limit).
CoarseSq(a, b) ==
    LET dx == Abs(a.x - b.x) \div 25
        dy == Abs(a.y - b.y) \div 25
    IN  dx * dx + dy * dy

Within(a, b, px) ==
    /\ Abs(a.x - b.x) <= Px(px)
    /\ Abs(a.y - b.y) <= Px(px)
    /\ CoarseSq(a, b) <= (25 * px) * (25 * px)

Beyond(a, b, px) ==
    \/ Abs(a.x - b.x) > Px(px)
    \/ Abs(a.y - b.y) > Px(px)
    \/ CoarseSq(a, b) > (25 * px) * (25 * px)

\* in the last frame new book k lay within 10px of old book i, and every other
\* pair of a new and an old book was more than 200px apart
OnlyClosePair(k, i) ==
    /\ Within(lastFrame.raw[k], lastFrame.old[i], 10)
    /\ \A n \in 1..Len(lastFrame.raw), o \in 1..Len(lastFrame.old) :
          <<n, o>> # <<k, i>> => Beyond(lastFrame.raw[n], lastFrame.old[o], 200)

\* new book n of the last frame was handled as unmatched: if it passes the
\* final filter it is in the stabilized set as it came, with stable = false
HeldAsNew(n) ==
    AboveDropFloor(lastFrame.raw[n]) =>
        \E j \in 1..Len(stableBooks) :
            /\ stableBooks[j].id = lastFrame.raw[n].id
            /\ SameGeometry(stableBooks[j], lastFrame.raw[n])
            /\ stableBooks[j].confidence = lastFrame.raw[n].confidence
            /\ ~stableBooks[j].stable

\* old book o of the last frame was handled as unmatched: carried over decayed
\* when the keep condition holds, and otherwise not carried over
HeldAsUnmatchedOld(o) ==
    HeldDecayed(lastFrame.old[o]) <=> KeepsOldBook(lastFrame.old[o])

\* C12: when exactly one new detection lies within 10px of exactly one previous
\* detection and every other new/previous pair is more than 200px apart, exactly
\* that pair is matched (blended, stable), every other new detection is
\* unmatched (stable = false) and every other previous detection is treated as
\* unmatched.
C12_OnlyTheClosePairMatches ==
    lastFrame.path = "match" =>
        \A k \in 1..Len(lastFrame.raw), i \in 1..Len(lastFrame.old) :
            OnlyClosePair(k, i) =>
                /\ lastFrame.match[k] = i
                /\ HoldsBlend(k)
                /\ \A n \in 1..Len(lastFrame.raw) :
                      n # k => lastFrame.match[n] = 0 /\ HeldAsNew(n)
                /\ \A o \in 1..Len(lastFrame.old) :
                      o # i => o \in UnmatchedOld /\ HeldAsUnmatchedOld(o)

\* C12 witness: two new and two old books, one pair close and the rest far
\* apart, the close pair matched and the two others handled as unmatched
C12_Witness ==
    /\ lastFrame.path = "match"
    /\ Len(lastFrame.raw) >= 2
    /\ Len(lastFrame.old) >= 2
    /\ \E k \in 1..Len(lastFrame.raw), i \in 1..Len(lastFrame.old) :
          /\ OnlyClosePair(k, i)
          /\ lastFrame.raw[k].x # lastFrame.old[i].x
          /\ lastFrame.match[k] = i
          /\ \E n \in 1..Len(lastFrame.raw) : n # k /\ AboveDropFloor(lastFrame.raw[n])
          /\ \E o \in 1..Len(lastFrame.old) : o # i /\ KeepsOldBook(lastFrame.old[o])

\* C13: every detectBooks call eventually completes, also when the external
\* detector never responds.
C13_EveryCallCompletes ==
    \A c \in CallIds : (calls[c].pc # "idle") ~> (calls[c].pc = "idle")

\* the first beneficial heuristic in the order rotate, stack, face-out
FirstBeneficial(book) ==
    IF analyzeRotation(book).beneficial THEN "rotate"
    ELSE IF analyzeStacking(book).beneficial THEN "stack"
    ELSE IF analyzeFaceOut(book).beneficial THEN "faceout"
    ELSE "none"

\* the suggestions returned for the book with the given id
SuggestionsFor(id) ==
    {k \in 1..Len(output.result) : output.result[k].bookId = id}

\* C14: generateOptimizationSuggestions emits at most one suggestion per
\* detection; its type is the first beneficial heuristic in the order rotate,
\* stack, face-out, and there is none when no heuristic is beneficial.
C14_FirstBeneficialWins ==
    output.fn = "generateOptimizationSuggestions" =>
        \A i \in 1..Len(input.books) :
            LET mine == SuggestionsFor(input.books[i].id)
            IN  /\ Cardinality(mine) <= 1
                /\ (mine = {}) <=> (FirstBeneficial(input.books[i]) = "none")
                /\ \A k \in mine : output.result[k].type = FirstBeneficial(input.books[i])

\* C14 witness: of two books, one for which rotation and face-out are both
\* beneficial got a rotate suggestion, and one for which nothing is got none
C14_Witness ==
    /\ output.fn = "generateOptimizationSuggestions"
    /\ \E i, j \in 1..Len(input.books) :
          /\ analyzeRotation(input.books[i]).beneficial
          /\ analyzeFaceOut(input.books[i]).beneficial
          /\ \E k \in SuggestionsFor(input.books[i].id) : output.result[k].type = "rotate"
          /\ FirstBeneficial(input.books[j]) = "none"
          /\ SuggestionsFor(input.books[j].id) = {}

\* the book of the stacking scenario: width 20, height 150, thickness 15
IsThinTallBook(book) ==
    book.width = 20 /\ book.height = 150 /\ book.estimatedThickness = 15

\* C15: a detection with width 20, height 150 and estimatedThickness 15 is
\* judged beneficial by the stack heuristic and receives a stack suggestion.
C15_ThinTallBookIsStacked ==
    /\ (output.fn = "analyzeStacking" /\ IsThinTallBook(input.book))
          => output.result.beneficial
    /\ output.fn = "generateOptimizationSuggestions" =>
          \A i \in 1..Len(input.books) :
              IsThinTallBook(input.books[i]) =>
                  \E k \in SuggestionsFor(input.books[i].id) : output.result[k].type = "stack"

\* the book of the rotation scenario: width 60, height 80, thickness 40
IsWideThickBook(book) ==
    book.width = 60 /\ book.height = 80 /\ book.estimatedThickness = 40

\* C16: analyzeRotation reports beneficial exactly when height < width x 2.5,
\* width > 30 and the saved footprint width x thickness - height x thickness
\* exceeds 5, with gain% the rounding of saved / (width x thickness) x 100; for
\* width 60, height 80, thickness 40 the saving is negative, rotation is
\* rejected, and stack and face-out are evaluated next.
C16_RotationRule ==
    /\ output.fn = "analyzeRotation" =>
          LET book == input.book
              before == book.width * book.estimatedThickness
              saved == before - book.height * book.estimatedThickness
          IN  /\ output.result.beneficial
                    <=> (2 * book.height < 5 * book.width /\ book.width > 30 /\ saved > 5)
              /\ output.result.beneficial
                    => 2 * Abs(output.result.spaceGain * before - 100 * saved) <= before
              /\ IsWideThickBook(book) => saved < 0 /\ ~output.result.beneficial
    /\ (output.fn = "analyzeBookOptimization" /\ IsWideThickBook(input.book))
          => /\ output.result.optimizationType # "rotate"
             /\ output.result.evaluated = <<"rotate", "stack", "faceout">>

\* C16 witness: the book 60 x 80 x 40 went through analyzeBookOptimization,
\* which ran all three heuristics
C16_Witness ==
    /\ output.fn = "analyzeBookOptimization"
    /\ IsWideThickBook(input.book)
    /\ Len(output.result.evaluated) = 3

\* C17: detectShelves returns at least one band for every buffer of positive
\* size, and when no sampled row exceeds the strength threshold 15 it returns
\* exactly the two bands [0, height/2] and [height/2, height] (quarter pixels:
\* [0, 2 height] and [2 height, 4 height]).
C17_AtLeastOneBand ==
    output.fn = "detectShelves" =>
        /\ Len(output.result) >= 1
        /\ (\A k \in 1..Len(input.rows) : input.rows[k].strength <= 15)
              => /\ Len(output.result) = 2
                 /\ output.result[1].topY = 0
                 /\ output.result[1].bottomY = 2 * input.height
                 /\ output.result[2].topY = 2 * input.height
                 /\ output.result[2].bottomY = 4 * input.height

\* C17 witness: rows with edges at and below the threshold, none above it, and
\* the two default bands returned
C17_Witness ==
    /\ output.fn = "detectShelves"
    /\ Len(input.rows) >= 2
    /\ \E k \in 1..Len(input.rows) : input.rows[k].strength = 15
    /\ \A k \in 1..Len(input.rows) : input.rows[k].strength <= 15
    /\ Len(output.result) = 2
    /\ output.result[2].bottomY = 4 * input.height

\* C18: filterVerticalEdges returns edges in strictly increasing x, no two of
\* them closer than minEdgeSeparation, also after a replacement of the last
\* accepted edge.
C18_EdgesAscendingAndSeparated ==
    output.fn = "filterVerticalEdges" =>
        \A i, j \in 1..Len(output.result) :
            i < j => /\ output.result[i].x < output.result[j].x
                     /\ output.result[j].x - output.result[i].x >= minEdgeSeparation

\* C18 witness: an accepted edge was replaced by a close one more than 1.3
\* times as strong, and the result holds the replacement next to another edge
C18_Witness ==
    /\ output.fn = "filterVerticalEdges"
    /\ Len(output.result) >= 2
    /\ Len(input.edges) <= MaxEdges
    /\ \E k \in 1..Len(output.result), a, b \in 1..Len(input.edges) :
          /\ output.result[k] = input.edges[b]
          /\ input.edges[a].x < input.edges[b].x
          /\ input.edges[b].x - input.edges[a].x <= minEdgeSeparation
          /\ 10 * input.edges[a].strength > 12 * edgeThreshold
          /\ 10 * input.edges[b].strength > 13 * input.edges[a].strength
          /\ \A m \in 1..Len(output.result) : output.result[m].x # input.edges[a].x

\* C19: every detection detectBooksInShelf emits for a band with topY < bottomY
\* has confidence within [0, 1], width > 0 and height > 0.
C19_ShelfBooksWellFormed ==
    (output.fn = "detectBooksInShelf" /\ input.shelf.topY < input.shelf.bottomY) =>
        \A k \in 1..Len(output.result) :
            /\ output.result[k].confidence >= 0
            /\ output.result[k].confidence <= ConfScale
            /\ output.result[k].width > 0
            /\ output.result[k].height > 0

\* C19 witness: two books emitted for one band, one at the confidence cap of
\* 0.8 and one below it
C19_Witness ==
    /\ output.fn = "detectBooksInShelf"
    /\ Len(output.result) >= 2
    /\ \E k \in 1..Len(output.result) : output.result[k].confidence = Conf(80)
    /\ \E k \in 1..Len(output.result) : output.result[k].confidence < Conf(80)

\* the previous books the k-th returned book is a blend with: the new books
\* all pass the final filter, so the k-th returned book stems from the k-th new
MatchesOf(k) ==
    IF ~output.result[k].stable THEN {}
    ELSE {o \in 1..Len(input.oldBooks) :
             output.result[k] = MatchedBook(input.newBooks[k], input.oldBooks[o])}

\* the previous books claimed by the new books before the k-th
ClaimedBefore(k) == UNION {MatchesOf(n) : n \in 1..(k - 1)}

\* the previous books the k-th new book could still take: not yet claimed and
\* less than matchDistance away
Candidates(k) ==
    {o \in 1..Len(input.oldBooks) :
        /\ o \notin ClaimedBefore(k)
        /\ DistanceSq(input.newBooks[k], input.oldBooks[o]) < matchLimitSq}

\* C20: the matching is one-to-one and bounded: each new detection, in input
\* order, is matched to the closest previous detection not yet claimed, and only
\* if that one is less than 50px away; no previous detection is matched twice;
\* among equally close candidates the first scanned wins.
C20_GreedyOneToOneMatching ==
    (output.fn = "stabilizeBookPositions" /\ Len(input.oldBooks) > 0) =>
        /\ \A k, n \in 1..Len(input.newBooks) :
              k # n => MatchesOf(k) \cap MatchesOf(n) = {}
        /\ \A k \in 1..Len(input.newBooks) :
              IF Candidates(k) = {}
              THEN MatchesOf(k) = {}
              ELSE \E m \in Candidates(k) :
                      /\ MatchesOf(k) = {m}
                      /\ \A o \in Candidates(k) :
                            LET taken == DistanceSq(input.newBooks[k], input.oldBooks[m])
                                other == DistanceSq(input.newBooks[k], input.oldBooks[o])
                            IN  taken < other \/ (taken = other /\ m <= o)

\* C20 witness: the first new book had two equally close candidates at
\* different places and took the first scanned; the second new book, no
\* farther from that claimed book than from the other, took the other
C20_Witness ==
    /\ output.fn = "stabilizeBookPositions"
    /\ Len(input.oldBooks) >= 2
    /\ Len(input.newBooks) >= 2
    /\ input.oldBooks[1].x # input.oldBooks[2].x
    /\ DistanceSq(input.newBooks[1], input.oldBooks[1])
          = DistanceSq(input.newBooks[1], input.oldBooks[2])
    /\ MatchesOf(1) = {1}
    /\ DistanceSq(input.newBooks[2], input.oldBooks[1]) < matchLimitSq
    /\ DistanceSq(input.newBooks[2], input.oldBooks[1])
          <= DistanceSq(input.newBooks[2], input.oldBooks[2])
    /\ MatchesOf(2) = {2}

\* the (new id, previous index) pairs stabilizeBookPositions blends, read
\* off the books it returns
MatchedPairs(newBooks, oldBooks) ==
    IF Len(oldBooks) = 0 THEN {}
    ELSE LET result == stabilizeBookPositions(newBooks, oldBooks)
         IN  {pair \in {<<newBooks[k].id, o>> : k \in 1..Len(newBooks), o \in 1..Len(oldBooks)} :
                 \E k \in 1..Len(newBooks) :
                    /\ pair[1] = newBooks[k].id
                    /\ result[k].stable
                    /\ result[k] = MatchedBook(newBooks[k], oldBooks[pair[2]])}

\* the orders in which n detections can be listed
Orders(n) == {p \in [1..n -> 1..n] : \A i, j \in 1..n : i # j => p[i] # p[j]}

\* two different (new, previous) pairs of the call are exactly equally far apart
HasEquidistantPairs ==
    \E k, n \in 1..Len(input.newBooks), o, q \in 1..Len(input.oldBooks) :
        /\ <<k, o>> # <<n, q>>
        /\ CoarseSq(input.newBooks[k], input.oldBooks[o])
              = CoarseSq(input.newBooks[n], input.oldBooks[q])

\* C21: the set of matched (new, previous) pairs does not depend on the order
\* in which the raw detections of a frame are listed, unless two of the
\* distances involved are exactly equal.
C21_OrderMattersOnlyWhenEquidistant ==
    (output.fn = "stabilizeBookPositions" /\ ~HasEquidistantPairs) =>
        \A p \in Orders(Len(input.newBooks)) :
            MatchedPairs([k \in 1..Len(input.newBooks) |-> input.newBooks[p[k]]],
                         input.oldBooks)
               = MatchedPairs(input.newBooks, input.oldBooks)

\* the stabilized set holds a book at x
StoredAt(x) == \E j \in 1..Len(stableBooks) : stableBooks[j].x = x

\* the last frame had a detection that claimed the stored book at x
MatchedAt(x) ==
    /\ lastFrame.path = "match"
    /\ \E k \in 1..Len(lastFrame.match) :
          lastFrame.match[k] # 0 /\ lastFrame.old[lastFrame.match[k]].x = x

\* every stored book the last frame left unmatched and that is still held has
\* less confidence than before that frame
UnmatchedLostConfidence ==
    lastFrame.path = "match" =>
        \A i \in UnmatchedOld, j \in 1..Len(stableBooks) :
            stableBooks[j].x = lastFrame.old[i].x
                => stableBooks[j].confidence < lastFrame.old[i].confidence

\* C22: a stored detection that no later frame matches loses confidence with
\* every frame and is eventually removed: while frames keep being processed,
\* a stored book is matched again or gone within DecayHorizon frames.
C22_UnmatchedEventuallyRemoved ==
    /\ []UnmatchedLostConfidence
    /\ \A x \in DecayPlaces :
          (StoredAt(x) /\ frames <= MaxDecayFrames - DecayHorizon)
              ~> (~StoredAt(x) \/ MatchedAt(x))

\* C22 witness: the book at x = 100 was stored, was carried over unmatched
\* with less confidence, and the last frame removed it
C22_Witness ==
    /\ lastFrame.path = "match"
    /\ \E i \in UnmatchedOld :
          /\ lastFrame.old[i].x = Px(100)
          /\ lastFrame.old[i].confidence < Conf(32)
          /\ lastFrame.old[i].confidence > Conf(dropConfidence)
    /\ ~StoredAt(Px(100))

\* a step in which a detectBooks call was made and rejected
CallRejected ==
    /\ frames' = frames + 1
    /\ calls' = calls
    /\ lastResult'.status = "error"

\* C23: a detectBooks call that fails leaves the stored stabilized set and the
\* detection history (and with them the suggestions) as they were, the loop
\* requests its next frame, and the frame processed next is stabilized against
\* that untouched set.
C23_FailureIsIsolated ==
    [][/\ CallRejected =>
             /\ stableBooks' = stableBooks
             /\ detectionHistory' = detectionHistory
             /\ lastFrame' = lastFrame
             /\ isRunning' = isRunning
             /\ animationFrame' = "pending"
       /\ (lastResult.status = "error" /\ detectionHistory' # detectionHistory) =>
             /\ lastFrame'.old = stableBooks
             /\ stableBooks' = stabilizeBookPositions(lastFrame'.raw, stableBooks)]_vars

\* C23 witness: a call was rejected while a book was stored and a frame was in
\* the history; both are still there and the next frame is requested
C23_Witness ==
    /\ lastResult.status = "error"
    /\ Len(stableBooks) > 0
    /\ Len(detectionHistory) > 0
    /\ lastFrame.path # "none"
    /\ isRunning
    /\ animationFrame = "pending"

\* C24: every detection detectBooksInShelf emits has estimatedThickness =
\* width x 0.6, canRotate = (height < width x 3) and canStack = (height > 100
\* and width < 30), height being the detection's own height.
C24_FlagsFromOwnHeight ==
    output.fn = "detectBooksInShelf" =>
        \A k \in 1..Len(output.result) :
            LET book == output.result[k]
            IN  /\ 10 * book.estimatedThickness = 6 * book.width
                /\ book.canRotate = (book.height < 3 * book.width)
                /\ book.canStack = (book.height > Px(100) /\ book.width < Px(30))

\* C25: FallbackDetection.detectBooks never changes its configuration: the
\* edge threshold a frame starts with is the default whatever frames came
\* before, so the detections returned for a pixel buffer are those a freshly
\* constructed detector returns for it.
C25_ConfigNeverChanges ==
    /\ config.edgeThreshold = 40
    /\ output.fn = "detectBooks" =>
          output.result = detectBooksByLines(input.image, [edgeThreshold |-> 40]).books

\* the face-out suggestions returned for the book with the given id
FaceOutSuggestionsFor(id) ==
    {k \in SuggestionsFor(id) : output.result[k].type = "faceout"}

\* C26: a face-out suggestion is emitted for a detection exactly when rotate
\* and stack are not beneficial, width > 45, height > 80 and width * 0.8 > 25;
\* its volumeGain is estimatedThickness - width (here in tenths), whatever
\* its sign.
C26_FaceOutRule ==
    output.fn = "generateOptimizationSuggestions" =>
        \A i \in 1..Len(input.books) :
            LET book == input.books[i]
                mine == FaceOutSuggestionsFor(book.id)
            IN  /\ (mine # {}) <=>
                       /\ ~analyzeRotation(book).beneficial
                       /\ ~analyzeStacking(book).beneficial
                       /\ book.width > 45
                       /\ book.height > 80
                       /\ 8 * book.width > 250
                /\ \A k \in mine :
                       output.result[k].volumeGain = 10 * (book.estimatedThickness - book.width)

\* C26 witness: a face-out suggestion with a negative volumeGain was returned,
\* next to a wide book that got a rotate suggestion instead
C26_Witness ==
    /\ output.fn = "generateOptimizationSuggestions"
    /\ \E i, j \in 1..Len(input.books) :
          /\ \E k \in FaceOutSuggestionsFor(input.books[i].id) : output.result[k].volumeGain < 0
          /\ input.books[j].width > 45
          /\ input.books[j].height > 80
          /\ FaceOutSuggestionsFor(input.books[j].id) = {}

\* the book passes the gate of the stacking heuristic
StackGate(book) ==
    book.height > 120 /\ book.width < 35 /\ book.estimatedThickness < 25

RECURSIVE RotationGainFrom(_, _)
\* the rotation gains of the books from index i on, added up
RotationGainFrom(books, i) ==
    IF i > Len(books) THEN 0
    ELSE analyzeRotation(books[i]).volumeGain + RotationGainFrom(books, i + 1)

MatchedRaw ==
    IF lastFrame.path = "match"
    THEN {i \in 1..Len(lastFrame.raw) : lastFrame.match[i] # 0}
    ELSE {}

\* where the i-th raw book of the last frame stands in the stabilized set: the
\* raw books come first, in order, less the unmatched ones the final filter drops
PlaceOfRaw(i) ==
    i - Cardinality({j \in 1..(i - 1) :
                        /\ lastFrame.match[j] = 0
                        /\ lastFrame.raw[j].confidence <= Conf(dropConfidence)})

\* C28: raw detections with width > 0, height > 0 and confidence in [0, 1]
\* give, after any frames, stabilized detections with width > 0, height > 0
\* and confidence in [0, 1]; a detection produced by a match has
\* confidence >= 0.3.
C28_StabilizedWellFormed ==
    /\ \A k \in 1..Len(stableBooks) :
          /\ stableBooks[k].width > 0
          /\ stableBooks[k].height > 0
          /\ stableBooks[k].confidence >= 0
          /\ stableBooks[k].confidence <= ConfScale
    /\ \A i \in MatchedRaw :
          /\ PlaceOfRaw(i) \in 1..Len(stableBooks)
          /\ stableBooks[PlaceOfRaw(i)].confidence >= Conf(30)

\* C28 witness: a raw speck of confidence 0 was matched to a stored book of
\* confidence below 0.3 and stands in the set with confidence 0.3
C28_Witness ==
    /\ MatchedRaw # {}
    /\ \E i \in MatchedRaw :
          /\ lastFrame.raw[i].confidence = 0
          /\ lastFrame.old[lastFrame.match[i]].confidence < Conf(30)
          /\ stableBooks[PlaceOfRaw(i)].confidence = Conf(30)

\* the fields the stabilizer sets on a match
BlendedFields == {"x", "y", "width", "height", "confidence", "stable"}

\* C29: on a match the stabilizer changes only x, y, width, height, confidence
\* and stable; every other field of the stabilized detection (id,
\* estimatedThickness, canRotate, canStack, the detection method) is the new
\* raw detection's, not the stored one's and not recomputed.
C29_MatchKeepsRawFields ==
    \A i \in MatchedRaw :
        LET raw == lastFrame.raw[i]
            book == stableBooks[PlaceOfRaw(i)]
        IN  /\ DOMAIN book = DOMAIN raw \cup {"stable"}
            /\ \A f \in DOMAIN raw \ BlendedFields : book[f] = raw[f]
            /\ book.stable

\* C29 witness: a raw book was matched to a stored book of another id,
\* thickness and method, and the canRotate it kept is not what the blended
\* width and height would give
C29_Witness ==
    \E i \in MatchedRaw :
        LET raw == lastFrame.raw[i]
            old == lastFrame.old[lastFrame.match[i]]
            book == stableBooks[PlaceOfRaw(i)]
        IN  /\ old.id # raw.id
            /\ old.estimatedThickness # raw.estimatedThickness
            /\ old.detectionMethod # raw.detectionMethod
            /\ old.canRotate # raw.canRotate
            /\ book.canRotate # (book.height < book.width * 3)
            /\ book.estimatedThickness # (book.width * 6) \div 10

\* the last five entries of a sequence, in order
LastFive(entries) ==
    IF Len(entries) > 5 THEN SubSeq(entries, Len(entries) - 4, Len(entries)) ELSE entries

\* a frame completes in this step and its entry is appended to the history,
\* the oldest entry leaving when there were five already
AppendsCompletedFrame ==
    /\ detectionHistory' # <<>>
    /\ LET entry == detectionHistory'[Len(detectionHistory')]
       IN  /\ entry.books = lastFrame'.raw
           /\ entry.count = Len(lastFrame'.raw)
           /\ entry.type = lastResult'.detectionType
           /\ entry.timestamp = frames
           /\ detectionHistory' = LastFive(Append(detectionHistory, entry))

\* the entries are in processing order
HistoryInOrder ==
    \A i, j \in 1..Len(detectionHistory) :
        i < j => detectionHistory[i].timestamp < detectionHistory[j].timestamp

\* C30: after any sequence of detectBooks calls detectionHistory holds at most
\* 5 entries, in processing order; each completed frame appends exactly one
\* entry, its own, and the oldest entry is the one dropped.
C30_HistoryKeepsLastFive ==
    /\ [](Len(detectionHistory) <= 5 /\ HistoryInOrder)
    /\ [][frames' = frames + 1 => AppendsCompletedFrame]_vars

\* C30 witness: seven frames completed, and the history holds the last five
\* of them, frames of both paths among them
C30_Witness ==
    /\ frames = 7
    /\ Len(detectionHistory) = 5
    /\ \A k \in 1..5 : detectionHistory[k].timestamp = k + 1
    /\ \E i, j \in 1..5 : detectionHistory[i].type # detectionHistory[j].type

====
